---- MODULE Spec2Model ----
(***************************************************************************)
(* The routing engine of the LTP controller (ltp_controller/router.py):    *)
(* the route table, the pending-start / pending-stop sets, the monitor     *)
(* loop, one _run_route task per route, delete_route and engine stop.      *)
(* Every step of a coroutine runs from one suspension point (await) to the *)
(* next, as the asyncio event loop runs it.                                *)
(***************************************************************************)
EXTENDS Integers, FiniteSets, Sequences, TLC

\* ------------------------------------------------------------------ bounds

\* Number of route ids create_route can hand out (uuid4 ids are fresh).
MaxRoutes == 2

RouteIds == 1..MaxRoutes

\* Backoff sleeps of one task in the two-route specification.
MaxRetries == 2

\* Entries of one load_routes call.
MaxLoad == 2

\* Source ids a route may name.  "s2" is never discovered by the controller,
\* so get_source("s2") returns None; "v1" is a virtual source of the
\* controller's VirtualSourceManager.
SourceIds == {"s1", "s2", "v1"}
VirtualSources == {"v1"}
SinkIds == {"k1"}
KnownDevices == {"s1", "k1"}

Modes == {"proxy", "direct"}

\* Outcome of a network await: a normal answer, an answer with an error
\* status, an exception (connection refused, reset) or a timeout.
Outcomes == {"ok", "status_error", "error", "timeout"}

\* reconnect_delay in units of 1/128 s, so that x1.5 stays integral.
TicksPerSecond == 2 * 2 * 2 * 2 * 2 * 2 * 2
InitialDelay == 2 * TicksPerSecond
MaxDelay == 30 * TicksPerSecond

Min(a, b) == IF a < b THEN a ELSE b

\* ------------------------------------------------------------------ state

VARIABLES
    phase,          \* engine life cycle: "init", "running", "stopping", "stopped"
    routes,         \* route objects by id (field present: id is a key of _routes)
    nextId,         \* number of ids handed out by create_route
    regTasks,       \* keys of _route_tasks
    task,           \* the _run_route task of each route id
    pendingStarts,  \* _pending_starts
    pendingStops,   \* _pending_stops
    online,         \* controller's DeviceState.online of each known device
    monitor,        \* the _monitor_loop task
    deleter,        \* delete_route calls in progress, by route id
    stopper,        \* the stop() call
    netOk,          \* every network operation succeeds, every request is answered ok
    created,        \* what the last recorded create_route call returned
    limits,         \* the bounds of the model, fixed by the initial state
    devices,        \* Controller._sources and _sinks: DeviceState by service name
    browser,        \* ServiceBrowser._devices: the device id announced by each name
    client,         \* a ControlClient: _connection, handler, _seq, _pending
    calls,          \* the request() calls on that client
    wire,           \* the client's connection: seqs written, messages read
    handled,        \* the messages the client's fallback handler was given
    conn,           \* a ControlConnection of a control server: _closed, position
    stream,         \* the messages that arrived on that connection, in order
    outbox,         \* the messages written to that connection, in order
    sink,           \* a sink device: its StreamManager, renderer and packet count
    source,         \* a source device: its StreamManager, senders and frame counts
    render,         \* the serial sink's render slot, counters and render thread
    packet,         \* a data packet and its datagram (libltp.protocol.DataPacket)
    registry,       \* a device's ControlRegistry and its last set_values call (libltp.controls)
    mapper,         \* a TopologyMapper over a matrix topology (libltp.topology)
    life            \* a source process and a sink process: what start and stop made of them

\* The state of the components around the routing engine: the engine's
\* operations leave it alone.
deviceVars == <<devices, browser>>
clientVars == <<client, calls, wire, handled>>
serverVars == <<conn, stream, outbox>>
streamVars == <<sink, source>>
unitVars == <<render, packet, registry, mapper, life>>
peerVars == <<deviceVars, clientVars, serverVars, streamVars, unitVars>>

\* The routing engine's own state.
engineVars == <<phase, routes, nextId, regTasks, task, pendingStarts,
                pendingStops, online, monitor, deleter, stopper, netOk,
                created, limits>>

\* What the operations of one component leave alone.
outsideDevices == <<engineVars, clientVars, serverVars, streamVars, unitVars>>
outsideClient == <<engineVars, deviceVars, serverVars, streamVars, unitVars>>
outsideServer == <<engineVars, deviceVars, clientVars, streamVars, unitVars>>
outsideSink == <<engineVars, deviceVars, clientVars, serverVars, source,
                  unitVars>>
outsideSource == <<engineVars, deviceVars, clientVars, serverVars, sink,
                  unitVars>>

\* What the operations of the small units (buffers, codecs, registries) leave
\* alone, the other units apart.
outsideUnits == <<engineVars, deviceVars, clientVars, serverVars, streamVars>>

outsideURender == <<outsideUnits, packet, registry, mapper, life>>

outsidePacket == <<outsideUnits, render, registry, mapper, life>>

outsideRegistry == <<outsideUnits, render, packet, mapper, life>>

outsideMapper == <<outsideUnits, render, packet, registry, life>>

outsideLife == <<outsideUnits, render, packet, registry, mapper>>

vars == <<phase, routes, nextId, regTasks, task, pendingStarts, pendingStops,
          online, monitor, deleter, stopper, netOk, created, limits,
          devices, browser, client, calls, wire, handled,
          conn, stream, outbox, sink, source, unitVars>>

\* self._running
running == phase = "running"

\* The event loop runs one coroutine at a time, from one suspension to the
\* next.  The monitor between its two loops ("stops"), a route task between the
\* loop head and its first await ("attempt") and stop() between two routes
\* ("routes") have not suspended: until they do, no other coroutine runs.  The
\* threads of the web interface (create_route, update_route) and of the
\* discovery (online flags) run whenever they like.
LoopFree ==
    /\ monitor.pc # "stops"
    /\ stopper.pc # "routes"
    /\ \A r \in RouteIds : task[r].pc # "attempt"

\* A Route object as the dataclass constructs it (status DISCONNECTED, no
\* runtime state).
NewRoute(src, snk, mode, en) ==
    [present |-> TRUE, source_id |-> src, sink_id |-> snk, enabled |-> en,
     mode |-> mode, status |-> "disconnected", error_message |-> "none",
     sink_client |-> "none", source_client |-> "none",
     sender |-> FALSE, receiver |-> FALSE,
     sink_stream_id |-> FALSE, source_stream_id |-> FALSE]

\* No object with this id.
NoRoute == [NewRoute("s1", "k1", "proxy", FALSE) EXCEPT !.present = FALSE]

\* No request built: the value of sub_req before subscribe() has returned.
NoRequest == [type |-> "none"]

NoTask == [pc |-> "none", cancel |-> FALSE, delay |-> InitialDelay, after |-> "none",
           sub_req |-> NoRequest]

\* A task that has finished: its local variables are gone.
DoneTask == [NoTask EXCEPT !.pc = "done"]

IdleCaller == [pc |-> "idle", route |-> 0, size |-> 0]

\* ---------------------------------------------- state around the engine

\* mDNS service-instance names the browser can report: one source, one sink.
SourceNames == {"src1"}
SinkNames == {"snk1"}
ServiceNames == SourceNames \cup SinkNames

\* The "id" TXT property of an announcement, as the string str(UUID) gives;
\* "none" when the property is missing or no UUID (device_id is None).
DeviceIds == {"none", "u1", "u2"}

\* Failed health checks in a row that the model follows.
MaxFailures == 6

\* FAILURES_BEFORE_OFFLINE
FailuresBeforeOffline == 5

\* A name the controller has no DeviceState for.
NoDevice ==
    [known |-> FALSE, device_id |-> "none", stable_id |-> "none",
     online |-> TRUE, consecutive_failures |-> 0]

\* DeviceState(device=device): online, no stable id yet, no failure counted.
NewDeviceState(device_id) ==
    [NoDevice EXCEPT !.known = TRUE, !.device_id = device_id]

\* request() calls made on one ControlClient, some of them at the same time.
MaxRequests == 3

Requests == 1..MaxRequests

\* Messages the client reads from its connection.
MaxArrivals == 3

\* Message.seq of a message without seq (None).
NoSeq == 0 - 1

\* No message; a message read by the client is its seq and the place it has
\* in the stream of messages read.
NoMessage == [seq |-> NoSeq, id |-> 0]

\* A request() call that has not run yet.
NoCall == [pc |-> "new", seq |-> NoSeq, result |-> NoMessage, error |-> "none"]

\* ControlClient(host, port, handler) before connect(); pending maps a seq to
\* the call whose future is stored under it, 0 for no entry.
NewClient(handler) ==
    [connected |-> FALSE, handler |-> handler, seq |-> 0,
     pending |-> [n \in Requests |-> 0]]

\* The controller's device table before any discovery event.
DevicesIdle ==
    /\ devices = [n \in ServiceNames |-> NoDevice]
    /\ browser = [n \in ServiceNames |-> "absent"]

\* A control client nobody uses.
ClientIdle ==
    /\ client = NewClient(FALSE)
    /\ calls = [r \in Requests |-> NoCall]
    /\ wire = [sent |-> <<>>, received |-> 0]
    /\ handled = <<>>

\* Messages that arrive on one connection of a control server.
MaxStream == 3

\* Broadcasts written to that connection.
MaxBroadcasts == 1

\* Seqs the requests of a peer carry: none, or a number.
RequestSeqs == {NoSeq, 1, 2}

\* A connection just accepted: open, waiting for its first message.
NewConnection == [closed |-> FALSE, pc |-> "receive", read |-> 0, broadcasts |-> 0]

\* A control server nobody has connected to.
ServerIdle ==
    /\ conn = NewConnection
    /\ stream = <<>>
    /\ outbox = <<>>

\* Streams one StreamManager creates.
MaxStreams == 2

\* StreamManager._next_id values, standing for the ids "stream-0001", ...
StreamIds == 1..MaxStreams

\* Data packets a sink receives.
MaxPackets == 3

\* Frames a source renders.
MaxFrames == 2

\* No entry in StreamManager._streams; create_stream makes an inactive one.
\* `starting` and `answer` are used by sources only: the callback of a
\* subscribe that waits for its sender to start, and the status of the
\* subscribe response.
NoStream ==
    [created |-> FALSE, active |-> FALSE, starting |-> "none", answer |-> "none"]

\* The sink programs: ltp_sink (terminal renderer), ltp_serial_sink and
\* ltp_artnet.
SinkKinds == {"terminal", "serial", "artnet"}

\* A started sink of one kind: no stream, nothing rendered.
NewSink(kind) ==
    [kind |-> kind, next_id |-> 0, streams |-> [stream_id \in StreamIds |-> NoStream],
     packets |-> 0, frames |-> 0, last_frame |-> FALSE]

\* The source programs: ltp_source (patterns) and ltp_media_source.
SourceKinds == {"pattern", "media"}

\* A started source of one kind: no stream, no sender, nothing rendered.
NewSource(kind) ==
    [kind |-> kind, next_id |-> 0, streams |-> [stream_id \in StreamIds |-> NoStream],
     senders |-> [stream_id \in StreamIds |-> "none"],
     sent |-> [stream_id \in StreamIds |-> 0], rendered |-> 0]

\* A sink and a source nobody talks to.
StreamsIdle ==
    /\ sink = NewSink("terminal")
    /\ source = NewSource("pattern")

\* The components around the engine before anything has happened to them.
\* The small units (buffers, codecs, registries) when no specification uses
\* them.
UnitsIdle ==
    /\ render = "unused"
    /\ packet = "unused"
    /\ registry = "unused"
    /\ mapper = "unused"
    /\ life = "unused"

\* Everything but the routing engine, unused.
AllIdle == DevicesIdle /\ ClientIdle /\ ServerIdle /\ StreamsIdle /\ UnitsIdle

PeersIdle ==
    /\ DevicesIdle
    /\ ClientIdle
    /\ ServerIdle
    /\ StreamsIdle
    /\ UnitsIdle

\* The engine's own variables after construction, with no route; the model
\* hands out at most `n` route ids and lets a task sleep its backoff at most
\* `k` times (any number of times when `bounded` is false).
EngineState(n, bounded, k) ==
    /\ limits = [routes |-> n, bounded |-> bounded, retries |-> k]
    /\ netOk = FALSE
    /\ created = "none"
    /\ phase = "init"
    /\ routes = [r \in RouteIds |-> NoRoute]
    /\ nextId = 0
    /\ regTasks = {}
    /\ task = [r \in RouteIds |-> NoTask]
    /\ pendingStarts = {}
    /\ pendingStops = {}
    /\ monitor = [pc |-> "none", route |-> 0, cancel |-> FALSE]
    /\ deleter = [r \in RouteIds |-> "idle"]
    /\ stopper = IdleCaller

\* The state after construction of the engine, the devices it names being
\* online or not; nothing has happened around it.
EngineInit(n, bounded, k) ==
    /\ EngineState(n, bounded, k)
    /\ online \in [KnownDevices -> BOOLEAN]
    /\ PeersIdle

\* An engine nobody uses, for the specifications of the other components.
EngineIdle ==
    /\ EngineState(0, TRUE, 0)
    /\ online = [d \in KnownDevices |-> TRUE]

\* ------------------------------------------------------------- route table

\* A faulty duplicate check that overlooks disabled routes; C5 must notice it.
route_exists_ignoring_disabled(src, snk) ==
    \E r \in RouteIds :
        /\ routes[r].present /\ routes[r].enabled
        /\ routes[r].source_id = src /\ routes[r].sink_id = snk

route_exists(src, snk) ==
    \E r \in RouteIds :
        routes[r].present /\ routes[r].source_id = src /\ routes[r].sink_id = snk

\* What create_route returns: None for a duplicate pair, else the new route.
create_route_result(src, snk) ==
    IF route_exists(src, snk) THEN "None" ELSE "route"

\* create_route: refuses a duplicate pair, else enters the route under a fresh
\* id (str(uuid4())[:8]: the next id never handed out, and not one a loaded
\* route has) and marks it for starting when the engine runs and the route is
\* enabled.  What it returns is recorded by its caller.
CreateRoute(src, snk, mode, en) ==
    IF create_route_result(src, snk) = "None"
    THEN UNCHANGED <<peerVars, limits, netOk, phase, routes, nextId, regTasks, task, pendingStarts,
                     pendingStops, online, monitor, deleter, stopper>>
    ELSE /\ nextId < limits.routes
         /\ ~routes[nextId + 1].present
         /\ nextId' = nextId + 1
         /\ routes' = [routes EXCEPT ![nextId + 1] = NewRoute(src, snk, mode, en)]
         /\ pendingStarts' = IF running /\ en
                             THEN pendingStarts \cup {nextId + 1}
                             ELSE pendingStarts
         /\ UNCHANGED <<peerVars, limits, netOk, phase, regTasks, task, pendingStops, online, monitor,
                        deleter, stopper>>

\* A faulty variant that flips the flag and forgets the pending stop; C6 must
\* notice it.
SetEnabledWithoutStop(r, en) ==
    /\ routes[r].present
    /\ routes[r].enabled # en
    /\ routes' = [routes EXCEPT ![r].enabled = en]
    /\ pendingStarts' = IF running /\ en THEN pendingStarts \cup {r} ELSE pendingStarts
    /\ UNCHANGED <<peerVars, limits, netOk, created, phase, nextId, regTasks, task, pendingStops,
                   online, monitor, deleter, stopper>>

\* The enabled branch shared by update_route, enable_route and disable_route:
\* flip the flag and, when running, queue the start or the stop.
SetEnabled(r, en) ==
    /\ routes[r].present
    /\ routes[r].enabled # en
    /\ routes' = [routes EXCEPT ![r].enabled = en]
    /\ pendingStarts' = IF running /\ en THEN pendingStarts \cup {r} ELSE pendingStarts
    /\ pendingStops' = IF running /\ ~en THEN pendingStops \cup {r} ELSE pendingStops
    /\ UNCHANGED <<peerVars, limits, netOk, created, phase, nextId, regTasks, task, online, monitor, deleter,
                   stopper>>

UpdateRoute(r, en) == SetEnabled(r, en)

EnableRoute(r) == LoopFree /\ SetEnabled(r, TRUE)

DisableRoute(r) == LoopFree /\ SetEnabled(r, FALSE)

\* load_routes: every entry of the configuration data becomes a Route object
\* (Route.from_dict: status DISCONNECTED, no runtime state) stored under the id
\* the entry names, whatever the table holds.
RECURSIVE LoadInto(_, _)
LoadInto(rts, data) ==
    IF data = <<>> THEN rts
    ELSE LET d == Head(data) IN
         LoadInto([rts EXCEPT ![d.id] = NewRoute(d.source_id, d.sink_id, d.mode, d.enabled)],
                  Tail(data))

LoadRoutes(data) ==
    /\ routes' = LoadInto(routes, data)
    /\ UNCHANGED <<peerVars, limits, netOk, created, phase, nextId, regTasks, task, pendingStarts, pendingStops,
                   online, monitor, deleter, stopper>>

\* The network and the peers turn reliable or unreliable.
NetChange(b) ==
    /\ netOk # b
    /\ netOk' = b
    /\ UNCHANGED <<peerVars, limits, created, phase, routes, nextId, regTasks, task,
                   pendingStarts, pendingStops, online, monitor, deleter, stopper>>

\* While the network is reliable a network wait has one outcome.
OutcomeAllowed(outcome) == netOk => outcome = "ok"

\* The health checker or discovery flips a device's online flag.
SetOnline(d, b) ==
    /\ online[d] # b
    /\ online' = [online EXCEPT ![d] = b]
    /\ UNCHANGED <<peerVars, limits, netOk, created, phase, routes, nextId, regTasks, task, pendingStarts,
                   pendingStops, monitor, deleter, stopper>>

\* ------------------------------------------------------------ _cleanup_route

\* _cleanup_route runs synchronously up to its next real suspension: the STOP
\* request to the sink, the STOP request to the source, the close of the source
\* client, the close of the sink client.  Each operator below is the code from
\* one of these points on; it gives the route as left at the next suspension
\* (at), or at the end of the function (at = "end").
CleanupFinish(rt) ==
    [rt |-> [rt EXCEPT !.source_stream_id = FALSE, !.sink_stream_id = FALSE,
                       !.status = "disconnected"],
     at |-> "end"]

\* if route._sink_client: close it (a client that never connected closes
\* without suspending), then set it to None.
CleanupCloseSink(rt) ==
    IF rt.sink_client = "connected"
    THEN [rt |-> rt, at |-> "cl_sink_close"]
    ELSE CleanupFinish([rt EXCEPT !.sink_client = "none"])

CleanupCloseSource(rt) ==
    IF rt.source_client = "connected"
    THEN [rt |-> rt, at |-> "cl_source_close"]
    ELSE CleanupCloseSink([rt EXCEPT !.source_client = "none"])

\* if route._source_client and route._source_stream_id: send STOP to the source.
CleanupStopSource(rt) ==
    IF rt.source_client = "connected" /\ rt.source_stream_id
    THEN [rt |-> rt, at |-> "cl_source_stop"]
    ELSE CleanupCloseSource(rt)

\* if route._sink_client and route._sink_stream_id: send STOP to the sink.
CleanupStopSink(rt) ==
    IF rt.sink_client = "connected" /\ rt.sink_stream_id
    THEN [rt |-> rt, at |-> "cl_sink_stop"]
    ELSE CleanupStopSource(rt)

\* Entry: receiver and sender are stopped and dropped without suspending.
CleanupEnter(rt) ==
    CleanupStopSink([rt EXCEPT !.receiver = FALSE, !.sender = FALSE])

CleanupPoints == {"cl_sink_stop", "cl_source_stop", "cl_source_close", "cl_sink_close"}

\* A faulty variant in which a STOP request that fails or times out ends the
\* cleanup; C7 must notice it.
CleanupResumeAborting(rt, at, outcome) ==
    CASE at = "cl_sink_stop" ->
            IF outcome = "ok" THEN CleanupStopSource(rt) ELSE [rt |-> rt, at |-> "end"]
      [] at = "cl_source_stop" ->
            IF outcome = "ok" THEN CleanupCloseSource(rt) ELSE [rt |-> rt, at |-> "end"]
      [] at = "cl_source_close" -> CleanupCloseSink([rt EXCEPT !.source_client = "none"])
      [] at = "cl_sink_close" -> CleanupFinish([rt EXCEPT !.sink_client = "none"])

\* The code after the suspension at `at`.  The outcome of a STOP request (ok,
\* error status, exception, timeout) is caught and logged: every outcome goes
\* on to the next statement.  Exceptions of close() are swallowed alike.
CleanupResume(rt, at, outcome) ==
    CASE at = "cl_sink_stop" -> CleanupStopSource(rt)
      [] at = "cl_source_stop" -> CleanupCloseSource(rt)
      [] at = "cl_source_close" -> CleanupCloseSink([rt EXCEPT !.source_client = "none"])
      [] at = "cl_sink_close" -> CleanupFinish([rt EXCEPT !.sink_client = "none"])

\* ---------------------------------------------------------------- _run_route

\* A faulty variant that doubles the delay; C10 must notice it.
NextDelayDoubling(d) == Min(2 * d, MaxDelay)

\* reconnect_delay = min(reconnect_delay * 1.5, max_reconnect_delay); every
\* value the delay takes below the cap is even in 1/128 s, so the division is
\* exact.
NextDelay(d) == Min((d * 3) \div 2, MaxDelay)

\* The delay after n backoff sleeps.
RECURSIVE DelayAfter(_)
DelayAfter(n) == IF n = 0 THEN InitialDelay ELSE NextDelay(DelayAfter(n - 1))

\* The bound of the model on the backoff sleeps of one task.
RetryAllowed(d) == ~limits.bounded \/ d < DelayAfter(limits.retries)

\* The task's result: the route and the task as the step leaves them.
Step(rt, tk) == [rt |-> rt, tk |-> tk]

\* A faulty variant that starts an attempt without the status CONNECTING; C9
\* must notice it.
LoopTopKeepingStatus(rt, tk) ==
    IF rt.enabled /\ running
    THEN Step([rt EXCEPT !.error_message = "none"],
              [tk EXCEPT !.pc = "attempt", !.after = "none"])
    ELSE Step([rt EXCEPT !.status = "disconnected"], DoneTask)

\* The head of the retry loop: while route.enabled and self._running, a new
\* attempt starts with status CONNECTING; else the loop ends, the status is set
\* to DISCONNECTED and the task finishes.
LoopTop(rt, tk) ==
    IF rt.enabled /\ running
    THEN Step([rt EXCEPT !.status = "connecting", !.error_message = "none"],
              [tk EXCEPT !.pc = "attempt", !.after = "none"])
    ELSE Step([rt EXCEPT !.status = "disconnected"], DoneTask)

\* What follows the finally-cleanup: after a break the function ends; after an
\* exception the task sleeps reconnect_delay when the route is still enabled and
\* the engine running; after a continue it goes back to the head of the loop.
AfterCleanup(rt, tk, after) ==
    CASE after = "break" ->
            Step([rt EXCEPT !.status = "disconnected"], DoneTask)
      [] after = "retry" ->
            IF rt.enabled /\ running
            THEN Step(rt, [tk EXCEPT !.pc = "backoff", !.after = "none"])
            ELSE LoopTop(rt, tk)
      [] after = "continue" -> LoopTop(rt, tk)

\* finally: await self._cleanup_route(route), up to its first suspension.
TaskCleanup(rt, tk, after) ==
    LET c == CleanupEnter(rt) IN
    IF c.at = "end"
    THEN AfterCleanup(c.rt, tk, after)
    ELSE Step(c.rt, [tk EXCEPT !.pc = c.at, !.after = after])

\* A faulty variant in which an exception ends the task; C8 must notice it.
ExceptionEndingTask(rt, tk, outcome) ==
    Step([rt EXCEPT !.status = "disconnected", !.error_message = "exception"],
         DoneTask)

\* except asyncio.TimeoutError / except Exception: status DISCONNECTED and an
\* error message, then the finally-cleanup, then the backoff.
ExceptionPath(rt, tk, outcome) ==
    TaskCleanup([rt EXCEPT !.status = "disconnected",
                           !.error_message = IF outcome = "timeout"
                                             THEN "timeout" ELSE "exception"],
                tk, "retry")

\* except asyncio.CancelledError: status DISCONNECTED, break, finally-cleanup.
CancelPath(rt, tk) ==
    TaskCleanup([rt EXCEPT !.status = "disconnected"],
                [tk EXCEPT !.cancel = FALSE], "break")

\* A task that ends with the CancelledError propagating out of _run_route.
Cancelled(rt, tk) == Step(rt, DoneTask)

TaskSet(r, res) ==
    /\ routes' = [routes EXCEPT ![r] = res.rt]
    /\ task' = [task EXCEPT ![r] = res.tk]
    /\ UNCHANGED <<peerVars, limits, netOk, created, phase, nextId, regTasks, pendingStarts, pendingStops, online,
                   monitor, deleter, stopper>>

\* First run of a created task: a task cancelled before it ever ran does not
\* run at all.
TaskStart(r) ==
    /\ task[r].pc = "new"
    /\ LoopFree
    /\ TaskSet(r, IF task[r].cancel
                  THEN Cancelled(routes[r], task[r])
                  ELSE LoopTop(routes[r], task[r]))

DeviceFound(d) == d \in KnownDevices

DeviceOnline(d) == DeviceFound(d) /\ online[d]

\* _is_virtual_source: the manager has a source of this id.
is_virtual_source(source_id) == source_id \in VirtualSources

\* f"Waiting for: {', '.join(offline)}": the offline devices of the route, the
\* source before the sink.
WaitingFor(source_offline, sink_offline) ==
    IF source_offline /\ sink_offline THEN "Waiting for: source, sink"
    ELSE IF source_offline THEN "Waiting for: source"
    ELSE "Waiting for: sink"

\* One attempt up to its first suspension: look up source and sink (ValueError
\* when one is unknown), wait when one is offline, else create the sink client
\* and connect it.  A virtual source is looked up in its manager and only the
\* sink is a device.
TaskAttempt(r) ==
    /\ task[r].pc = "attempt"
    /\ LET rt == routes[r]
           tk == task[r]
           needed == IF is_virtual_source(rt.source_id)
                      THEN {rt.sink_id} ELSE {rt.source_id, rt.sink_id} IN
       TaskSet(r,
           IF \E d \in needed : ~DeviceFound(d)
           THEN ExceptionPath(rt, tk, "error")
           ELSE IF \E d \in needed : ~online[d]
           THEN Step([rt EXCEPT !.status = "disconnected",
                                !.error_message =
                                    WaitingFor(rt.source_id \in needed /\ ~online[rt.source_id],
                                               ~online[rt.sink_id])],
                     [tk EXCEPT !.pc = "wait"])
           ELSE Step([rt EXCEPT !.sink_client = "created"],
                     [tk EXCEPT !.pc = "sink_connect"]))

\* A suspension inside the try block of one attempt: a cancellation raises
\* CancelledError there, a failure raises into the except clauses, and success
\* runs on to the next suspension (ok).
Await(r, at, outcome, ok) ==
    /\ task[r].pc = at
    /\ LoopFree
    /\ OutcomeAllowed(outcome)
    /\ TaskSet(r,
           IF task[r].cancel THEN CancelPath(routes[r], task[r])
           ELSE IF outcome \in {"error", "timeout"}
           THEN ExceptionPath(routes[r], task[r], outcome)
           ELSE ok)

\* await route._sink_client.connect(), then the stream_setup request.
TaskSinkConnect(r, outcome) ==
    /\ outcome # "status_error"
    /\ Await(r, "sink_connect", outcome,
             Step([routes[r] EXCEPT !.sink_client = "connected"],
                  [task[r] EXCEPT !.pc = "sink_setup"]))

\* The stream_setup response: a status other than ok raises ValueError; else the
\* stream id is kept and (proxy, virtual source) the DataSender is created and
\* started, or (direct) the START request is sent.
TaskSinkSetup(r, outcome) ==
    Await(r, "sink_setup", outcome,
          IF outcome = "status_error"
          THEN ExceptionPath(routes[r], task[r], "error")
          ELSE IF is_virtual_source(routes[r].source_id) \/ routes[r].mode = "proxy"
          THEN Step([routes[r] EXCEPT !.sink_stream_id = TRUE, !.sender = TRUE],
                    [task[r] EXCEPT !.pc = "sender_start"])
          ELSE Step([routes[r] EXCEPT !.sink_stream_id = TRUE],
                    [task[r] EXCEPT !.pc = "sink_start"]))

\* await route._sender.start(), then the START request to the sink.
TaskSenderStart(r, outcome) ==
    /\ outcome \in {"ok", "error"}
    /\ Await(r, "sender_start", outcome,
             Step(routes[r], [task[r] EXCEPT !.pc = "sink_start"]))

\* What one pass of a virtual route's render loop does after its frame: the
\* sink is looked at when the frame count is a multiple of the frame rate.
Ticks == {"frame", "check"}

\* A faulty variant in which a failure of a connected route starts the backoff
\* sequence anew; C40 must notice it.
RenderLoopResetting(rt, tk, tick) ==
    IF rt.enabled /\ running
    THEN IF tick = "check" /\ ~DeviceOnline(rt.sink_id)
         THEN ExceptionPath(rt, [tk EXCEPT !.delay = InitialDelay], "error")
         ELSE Step(rt, [tk EXCEPT !.pc = "render_loop"])
    ELSE TaskCleanup(rt, tk, "break")

\* The render loop of a virtual route, from its head to the sleep: while
\* route.enabled and self._running a frame is rendered and sent (an exception
\* of either is logged), ConnectionError when the sink is looked at and is
\* offline, then the sleep of one frame interval; else the function returns,
\* _run_route breaks and the finally-cleanup runs.
RenderLoop(rt, tk, tick) ==
    IF rt.enabled /\ running
    THEN IF tick = "check" /\ ~DeviceOnline(rt.sink_id)
         THEN ExceptionPath(rt, tk, "error")
         ELSE Step(rt, [tk EXCEPT !.pc = "render_loop"])
    ELSE TaskCleanup(rt, tk, "break")

\* The START response (its status is not looked at); then (virtual source)
\* the status becomes CONNECTED and the render loop starts, (proxy) the
\* DataReceiver is created and started, or (direct) the source client is
\* created and connected.
TaskSinkStart(r, outcome, tick) ==
    Await(r, "sink_start", outcome,
          IF is_virtual_source(routes[r].source_id)
          THEN RenderLoop([routes[r] EXCEPT !.status = "connected"], task[r], tick)
          ELSE IF routes[r].mode = "proxy"
          THEN Step([routes[r] EXCEPT !.receiver = TRUE],
                    [task[r] EXCEPT !.pc = "receiver_start"])
          ELSE Step([routes[r] EXCEPT !.source_client = "created"],
                    [task[r] EXCEPT !.pc = "source_connect"]))

\* await route._receiver.start(), then create and connect the source client.
TaskReceiverStart(r, outcome) ==
    /\ outcome \in {"ok", "error"}
    /\ Await(r, "receiver_start", outcome,
             Step([routes[r] EXCEPT !.source_client = "created"],
                  [task[r] EXCEPT !.pc = "source_connect"]))

\* def subscribe(seq, dimensions, color="rgb", rate=30): its parameters.
SubscribeParameters == {"seq", "dimensions", "color", "rate"}

\* What a call that cannot be bound to the parameters raises.
TypeError == [type |-> "TypeError"]

\* subscribe(seq, dimensions, color, rate, **keywords): a keyword that is no
\* parameter raises TypeError; else the SUBSCRIBE message, whose target holds
\* dimensions, color and rate.
subscribe(seq, dimensions, color, rate, keywords) ==
    IF DOMAIN keywords \subseteq SubscribeParameters
    THEN [type |-> "subscribe", seq |-> seq,
          target |-> [dimensions |-> dimensions, color |-> color, rate |-> rate]]
    ELSE TypeError

\* The keyword arguments of the route's call of subscribe: (proxy) the local
\* address towards the source and the port the DataReceiver was bound to,
\* (direct) the sink's host and the udp_port of its stream_setup response.
CallbackAddress(rt) ==
    IF rt.mode = "proxy"
    THEN [callback_host |-> "local_ip", callback_port |-> "receiver_port"]
    ELSE [callback_host |-> "sink_host", callback_port |-> "sink_udp_port"]

\* await route._source_client.connect(), then sub_req = subscribe(0, dims,
\* "rgb", 30, callback_host=..., callback_port=...): the TypeError of the call
\* ends the attempt in the except clause with both clients connected and no
\* request sent.  A call that returned would send sub_req and await the
\* response.
TaskSourceConnect(r, outcome) ==
    /\ outcome # "status_error"
    /\ LET rt == [routes[r] EXCEPT !.source_client = "connected"]
           req == subscribe(0, IF rt.mode = "proxy" THEN "source_dims" ELSE "sink_dims",
                            "rgb", 30, CallbackAddress(rt))
       IN Await(r, "source_connect", outcome,
                IF req = TypeError
                THEN ExceptionPath(rt, task[r], "error")
                ELSE Step(rt, [task[r] EXCEPT !.pc = "subscribe", !.sub_req = req]))

\* The sleep of the render loop ends: back to the head of the loop.
TaskRenderLoop(r, tick) ==
    /\ task[r].pc = "render_loop"
    /\ LoopFree
    /\ TaskSet(r, IF task[r].cancel
                  THEN CancelPath(routes[r], task[r])
                  ELSE RenderLoop(routes[r], task[r], tick))

\* A faulty variant in which the sleep of a waiting attempt grows the delay;
\* C31 must notice it.
TaskWaitGrowing(r) ==
    /\ task[r].pc = "wait"
    /\ LoopFree
    /\ TaskSet(r, IF task[r].cancel
                  THEN CancelPath(routes[r], task[r])
                  ELSE TaskCleanup(routes[r],
                                   [task[r] EXCEPT !.delay = NextDelay(task[r].delay)],
                                   "continue"))

\* The sleep of an attempt that found a device offline ends: continue, through
\* the finally-cleanup, to the head of the loop (the delay does not grow).
TaskWait(r) ==
    /\ task[r].pc = "wait"
    /\ LoopFree
    /\ TaskSet(r, IF task[r].cancel
                  THEN CancelPath(routes[r], task[r])
                  ELSE TaskCleanup(routes[r], task[r], "continue"))

\* The backoff sleep after a failed attempt ends: the delay grows and the loop
\* goes on.  The sleep is outside the try block: a cancellation ends the task.
TaskBackoff(r) ==
    /\ task[r].pc = "backoff"
    /\ LoopFree
    /\ task[r].cancel \/ RetryAllowed(task[r].delay)
    /\ TaskSet(r, IF task[r].cancel
                  THEN Cancelled(routes[r], task[r])
                  ELSE LoopTop(routes[r],
                               [task[r] EXCEPT !.delay = NextDelay(task[r].delay)]))

\* The task resumes inside its finally-cleanup.  A cancellation there is not
\* caught (except Exception) and ends the task with the cleanup unfinished.
TaskCleanupStep(r, outcome) ==
    /\ task[r].pc \in CleanupPoints
    /\ LoopFree
    /\ LET c == CleanupResume(routes[r], task[r].pc, outcome) IN
       TaskSet(r,
           IF task[r].cancel THEN Cancelled(routes[r], task[r])
           ELSE IF c.at = "end"
           THEN AfterCleanup(c.rt, task[r], task[r].after)
           ELSE Step(c.rt, [task[r] EXCEPT !.pc = c.at]))

\* --------------------------------------------------------------- _stop_route

NewTask == [NoTask EXCEPT !.pc = "new"]

TaskFinished(r) == task[r].pc \in {"none", "done"}

\* _stop_route up to its first suspension: pop the task of the route; cancel
\* and await it when it has not finished (at = "await_task"); else go straight
\* into _cleanup_route.
StopRoute(r) ==
    LET live == r \in regTasks /\ ~TaskFinished(r) IN
    [reg |-> regTasks \ {r},
     tasks |-> IF live THEN [task EXCEPT ![r].cancel = TRUE] ELSE task,
     rt |-> IF live THEN routes[r] ELSE CleanupEnter(routes[r]).rt,
     at |-> IF live THEN "await_task" ELSE CleanupEnter(routes[r]).at]

\* --------------------------------------------------------------- delete_route

\* delete_route: pop the route from the table, then _stop_route.
DeleteRoute(r) ==
    /\ routes[r].present
    /\ LoopFree
    /\ deleter[r] = "idle"
    /\ LET s == StopRoute(r) IN
       /\ routes' = [routes EXCEPT ![r] = [s.rt EXCEPT !.present = FALSE]]
       /\ regTasks' = s.reg
       /\ task' = s.tasks
       /\ deleter' = [deleter EXCEPT ![r] = IF s.at = "end" THEN "idle" ELSE s.at]
    /\ UNCHANGED <<peerVars, limits, netOk, created, phase, nextId, pendingStarts, pendingStops, online, monitor,
                   stopper>>

\* The awaited task has finished: _stop_route goes on into _cleanup_route.
DeleterAwaitTask(r) ==
    /\ deleter[r] = "await_task"
    /\ LoopFree
    /\ TaskFinished(r)
    /\ LET c == CleanupEnter(routes[r]) IN
       /\ routes' = [routes EXCEPT ![r] = c.rt]
       /\ deleter' = [deleter EXCEPT ![r] = IF c.at = "end" THEN "idle" ELSE c.at]
    /\ UNCHANGED <<peerVars, limits, netOk, created, phase, nextId, regTasks, task, pendingStarts, pendingStops,
                   online, monitor, stopper>>

DeleterCleanupStep(r, outcome) ==
    /\ deleter[r] \in CleanupPoints
    /\ LoopFree
    /\ LET c == CleanupResume(routes[r], deleter[r], outcome) IN
       /\ routes' = [routes EXCEPT ![r] = c.rt]
       /\ deleter' = [deleter EXCEPT ![r] = IF c.at = "end" THEN "idle" ELSE c.at]
    /\ UNCHANGED <<peerVars, limits, netOk, created, phase, nextId, regTasks, task, pendingStarts, pendingStops,
                   online, monitor, stopper>>

\* -------------------------------------------------------------- _monitor_loop

\* A faulty variant that does not look into _route_tasks; C35 must notice it.
StartableUnchecked(r) == routes[r].present /\ routes[r].enabled

\* A faulty variant of the monitor's test that starts a pending id whether or
\* not the table still has the route; C37 must notice it.
StartableAbsent(r) == routes[r].enabled /\ r \notin regTasks

\* The task the monitor creates for a pending start: only for a route that is
\* in the table, enabled and has no entry in _route_tasks.
Startable(r) == routes[r].present /\ routes[r].enabled /\ r \notin regTasks

\* The monitor wakes from its 100 ms sleep (or runs for the first time): a
\* cancellation ends it, so does self._running being false; else it empties
\* _pending_starts, creating the tasks, and turns to _pending_stops.
MonitorWake ==
    /\ monitor.pc = "sleep"
    /\ LoopFree
    /\ IF monitor.cancel \/ ~running
       THEN /\ monitor' = [pc |-> "dead", route |-> 0, cancel |-> FALSE]
            /\ UNCHANGED <<regTasks, task, pendingStarts>>
       ELSE /\ monitor' = [monitor EXCEPT !.pc = "stops"]
            /\ regTasks' = regTasks \cup {r \in pendingStarts : Startable(r)}
            /\ task' = [r \in RouteIds |->
                           IF r \in pendingStarts /\ Startable(r)
                           THEN NewTask ELSE task[r]]
            /\ pendingStarts' = {}
    /\ UNCHANGED <<peerVars, limits, netOk, created, phase, routes, nextId, pendingStops, online, deleter,
                   stopper>>

\* One round of `while self._pending_stops`: pop an id (set.pop() takes any)
\* and, when the route is in the table, _stop_route it.
MonitorStop(r) ==
    /\ monitor.pc = "stops"
    /\ r \in pendingStops
    /\ pendingStops' = pendingStops \ {r}
    /\ IF routes[r].present
       THEN LET s == StopRoute(r) IN
            /\ routes' = [routes EXCEPT ![r] = s.rt]
            /\ regTasks' = s.reg
            /\ task' = s.tasks
            /\ monitor' = IF s.at = "end"
                          THEN monitor
                          ELSE [monitor EXCEPT !.pc = s.at, !.route = r]
       ELSE UNCHANGED <<routes, regTasks, task, monitor>>
    /\ UNCHANGED <<peerVars, limits, netOk, created, phase, nextId, pendingStarts, online, deleter, stopper>>

\* _pending_stops is empty: await asyncio.sleep(0.1).
MonitorSleep ==
    /\ monitor.pc = "stops"
    /\ pendingStops = {}
    /\ monitor' = [monitor EXCEPT !.pc = "sleep", !.route = 0]
    /\ UNCHANGED <<peerVars, limits, netOk, created, phase, routes, nextId, regTasks, task, pendingStarts,
                   pendingStops, online, deleter, stopper>>

\* The task the monitor awaits in _stop_route has finished (a CancelledError it
\* ends with is passed over): on into _cleanup_route.
MonitorAwaitTask ==
    /\ monitor.pc = "await_task"
    /\ LoopFree
    /\ TaskFinished(monitor.route)
    /\ LET c == CleanupEnter(routes[monitor.route]) IN
       /\ routes' = [routes EXCEPT ![monitor.route] = c.rt]
       /\ monitor' = IF c.at = "end"
                     THEN [monitor EXCEPT !.pc = "stops", !.route = 0]
                     ELSE [monitor EXCEPT !.pc = c.at]
    /\ UNCHANGED <<peerVars, limits, netOk, created, phase, nextId, regTasks, task, pendingStarts, pendingStops,
                   online, deleter, stopper>>

\* The monitor resumes inside _cleanup_route; a cancellation there ends it.
MonitorCleanupStep(outcome) ==
    /\ monitor.pc \in CleanupPoints
    /\ LoopFree
    /\ IF monitor.cancel
       THEN /\ monitor' = [pc |-> "dead", route |-> 0, cancel |-> FALSE]
            /\ UNCHANGED routes
       ELSE LET c == CleanupResume(routes[monitor.route], monitor.pc, outcome) IN
            /\ routes' = [routes EXCEPT ![monitor.route] = c.rt]
            /\ monitor' = IF c.at = "end"
                          THEN [monitor EXCEPT !.pc = "stops", !.route = 0]
                          ELSE [monitor EXCEPT !.pc = c.at]
    /\ UNCHANGED <<peerVars, limits, netOk, created, phase, nextId, regTasks, task, pendingStarts, pendingStops,
                   online, deleter, stopper>>

\* ------------------------------------------------------------- start, stop

\* start(): a task for every enabled route of the table, and the monitor task.
StartEngine ==
    /\ phase = "init"
    /\ LoopFree
    /\ phase' = "running"
    /\ regTasks' = {r \in RouteIds : routes[r].present /\ routes[r].enabled}
    /\ task' = [r \in RouteIds |->
                   IF routes[r].present /\ routes[r].enabled THEN NewTask ELSE task[r]]
    /\ monitor' = [pc |-> "sleep", route |-> 0, cancel |-> FALSE]
    /\ UNCHANGED <<peerVars, limits, netOk, created, routes, nextId, pendingStarts, pendingStops, online, deleter,
                   stopper>>

TableSize == Cardinality({r \in RouteIds : routes[r].present})

\* stop() up to `await self._monitor_task`: _running becomes false and the
\* monitor is cancelled.  It runs on the event loop, so the monitor is at one of
\* its suspensions; cancelling a monitor that awaits a route task cancels that
\* task instead (asyncio cancels the awaited future), and the monitor passes
\* over the CancelledError.
StopEngine ==
    /\ running
    /\ LoopFree
    /\ phase' = "stopping"
    /\ IF monitor.pc = "await_task"
       THEN /\ task' = IF TaskFinished(monitor.route)
                       THEN task
                       ELSE [task EXCEPT ![monitor.route].cancel = TRUE]
            /\ UNCHANGED monitor
       ELSE /\ monitor' = [monitor EXCEPT !.cancel = TRUE]
            /\ UNCHANGED task
    /\ stopper' = [pc |-> "await_monitor", route |-> 0, size |-> 0]
    /\ UNCHANGED <<peerVars, limits, netOk, created, routes, nextId, regTasks, pendingStarts, pendingStops, online,
                   deleter>>

\* The monitor task has ended: `for route in self._routes.values()` begins.
StopperAwaitMonitor ==
    /\ stopper.pc = "await_monitor"
    /\ LoopFree
    /\ monitor.pc = "dead"
    /\ stopper' = [pc |-> "routes", route |-> 1, size |-> TableSize]
    /\ UNCHANGED <<peerVars, limits, netOk, created, phase, routes, nextId, regTasks, task, pendingStarts,
                   pendingStops, online, monitor, deleter>>

\* The next step of the iteration over the route table: RuntimeError when the
\* table changed size since the iteration began (stop() is left with the engine
\* not running); after the last route the task map and the pending sets are
\* cleared; else _stop_route of the route at this position.
StopperRoute ==
    /\ stopper.pc = "routes"
    /\ IF stopper.size # TableSize
       THEN /\ stopper' = [stopper EXCEPT !.pc = "failed"]
            /\ UNCHANGED <<phase, routes, regTasks, task, pendingStarts, pendingStops>>
       ELSE IF stopper.route > MaxRoutes
       THEN /\ stopper' = [stopper EXCEPT !.pc = "done"]
            /\ phase' = "stopped"
            /\ regTasks' = {}
            /\ pendingStarts' = {}
            /\ pendingStops' = {}
            /\ UNCHANGED <<routes, task>>
       ELSE IF ~routes[stopper.route].present
       THEN /\ stopper' = [stopper EXCEPT !.route = stopper.route + 1]
            /\ UNCHANGED <<phase, routes, regTasks, task, pendingStarts, pendingStops>>
       ELSE LET s == StopRoute(stopper.route) IN
            /\ routes' = [routes EXCEPT ![stopper.route] = s.rt]
            /\ regTasks' = s.reg
            /\ task' = s.tasks
            /\ stopper' = IF s.at = "end"
                          THEN [stopper EXCEPT !.route = stopper.route + 1]
                          ELSE [stopper EXCEPT !.pc = s.at]
            /\ UNCHANGED <<phase, pendingStarts, pendingStops>>
    /\ UNCHANGED <<peerVars, limits, netOk, created, nextId, online, monitor, deleter>>

StopperAwaitTask ==
    /\ stopper.pc = "await_task"
    /\ LoopFree
    /\ TaskFinished(stopper.route)
    /\ LET c == CleanupEnter(routes[stopper.route]) IN
       /\ routes' = [routes EXCEPT ![stopper.route] = c.rt]
       /\ stopper' = IF c.at = "end"
                     THEN [stopper EXCEPT !.pc = "routes", !.route = stopper.route + 1]
                     ELSE [stopper EXCEPT !.pc = c.at]
    /\ UNCHANGED <<peerVars, limits, netOk, created, phase, nextId, regTasks, task, pendingStarts, pendingStops,
                   online, monitor, deleter>>

StopperCleanupStep(outcome) ==
    /\ stopper.pc \in CleanupPoints
    /\ LoopFree
    /\ LET c == CleanupResume(routes[stopper.route], stopper.pc, outcome) IN
       /\ routes' = [routes EXCEPT ![stopper.route] = c.rt]
       /\ stopper' = IF c.at = "end"
                     THEN [stopper EXCEPT !.pc = "routes", !.route = stopper.route + 1]
                     ELSE [stopper EXCEPT !.pc = c.at]
    /\ UNCHANGED <<peerVars, limits, netOk, created, phase, nextId, regTasks, task, pendingStarts, pendingStops,
                   online, monitor, deleter>>

\* ------------------------------------------------------------- specification

CreateCall ==
    \E src \in SourceIds, snk \in SinkIds, mode \in Modes, en \in BOOLEAN :
        CreateRoute(src, snk, mode, en) /\ UNCHANGED created

\* The create call of the web interface: the return value decides between the
\* 201 and the 409 response.
ApiCreate ==
    \E src \in SourceIds, snk \in SinkIds, mode \in Modes, en \in BOOLEAN :
        CreateRoute(src, snk, mode, en) /\ created' = create_route_result(src, snk)

\* Calls on the route table from the web interface: update_route in the
\* caller's thread, enable_route and disable_route as coroutines on the loop.
RouteCalls ==
    \/ \E r \in RouteIds, en \in BOOLEAN : UpdateRoute(r, en)
    \/ \E r \in RouteIds : EnableRoute(r)
    \/ \E r \in RouteIds : DisableRoute(r)

\* delete_route, a coroutine on the loop.
DeleteCall == \E r \in RouteIds : DeleteRoute(r)

\* Steps of one route task.
TaskNext(r) ==
    \/ TaskStart(r)
    \/ TaskAttempt(r)
    \/ \E o \in Outcomes : TaskSinkConnect(r, o)
    \/ \E o \in Outcomes : TaskSinkSetup(r, o)
    \/ \E o \in Outcomes : TaskSenderStart(r, o)
    \/ \E o \in Outcomes, tick \in Ticks : TaskSinkStart(r, o, tick)
    \/ \E o \in Outcomes : TaskReceiverStart(r, o)
    \/ \E o \in Outcomes : TaskSourceConnect(r, o)
    \/ \E tick \in Ticks : TaskRenderLoop(r, tick)
    \/ TaskWait(r)
    \/ TaskBackoff(r)
    \/ \E o \in Outcomes : TaskCleanupStep(r, o)

MonitorNext ==
    \/ MonitorWake
    \/ \E r \in RouteIds : MonitorStop(r)
    \/ MonitorSleep
    \/ MonitorAwaitTask
    \/ \E o \in Outcomes : MonitorCleanupStep(o)

DeleterNext(r) ==
    \/ DeleterAwaitTask(r)
    \/ \E o \in Outcomes : DeleterCleanupStep(r, o)

StopperNext ==
    \/ StopperAwaitMonitor
    \/ StopperRoute
    \/ StopperAwaitTask
    \/ \E o \in Outcomes : StopperCleanupStep(o)

DeviceEvents == \E d \in KnownDevices, b \in BOOLEAN : SetOnline(d, b)

\* The whole engine: every call, the route tasks, the monitor, delete_route
\* and stop().
Next ==
    \/ CreateCall
    \/ RouteCalls
    \/ DeleteCall
    \/ DeviceEvents
    \/ StartEngine
    \/ StopEngine
    \/ \E r \in RouteIds : TaskNext(r)
    \/ MonitorNext
    \/ \E r \in RouteIds : DeleterNext(r)
    \/ StopperNext

\* The engine with a single route, from construction to the end of stop().
Spec == EngineInit(1, FALSE, 0) /\ [][Next]_vars

\* The running engine: no delete_route and no stop().
RunNext ==
    \/ CreateCall
    \/ RouteCalls
    \/ DeviceEvents
    \/ \E b \in BOOLEAN : NetChange(b)
    \/ StartEngine
    \/ \E r \in RouteIds : TaskNext(r)
    \/ MonitorNext

\* The event loop runs its ready coroutines in turn, and every sleep and every
\* network wait ends (requests time out): a coroutine that is ready again and
\* again runs, although it cannot while another one is in the middle of a
\* step.  Calls and device events may or may not come.
Fairness ==
    /\ \A r \in RouteIds : SF_vars(TaskNext(r))
    /\ SF_vars(MonitorNext)

\* The running engine with a single route, under the event loop's scheduling.
FairSpec == EngineInit(1, FALSE, 0) /\ [][RunNext]_vars /\ Fairness

\* The running engine with two enabled-or-disabled proxy routes that no call
\* changes: the route tasks fail and retry side by side, each task sleeping
\* its backoff at most MaxRetries times, and the monitor has starts only.
PairCreate ==
    \E src \in SourceIds, snk \in SinkIds, en \in BOOLEAN :
        CreateRoute(src, snk, "proxy", en) /\ UNCHANGED created

PairNext ==
    \/ PairCreate
    \/ DeviceEvents
    \/ StartEngine
    \/ \E r \in RouteIds : TaskNext(r)
    \/ MonitorWake
    \/ MonitorSleep

PairSpec == EngineInit(MaxRoutes, TRUE, MaxRetries) /\ [][PairNext]_vars

\* The route table before the engine starts: create_route, load_routes of up to
\* MaxLoad entries, update_route and delete_route.
LoadEntries ==
    [id : RouteIds, source_id : SourceIds, sink_id : SinkIds, mode : {"proxy"},
     enabled : BOOLEAN]

LoadData == UNION {[1..n -> LoadEntries] : n \in 1..MaxLoad}

TableNext ==
    \/ CreateCall
    \/ \E data \in LoadData : LoadRoutes(data)
    \/ \E r \in RouteIds, en \in BOOLEAN : UpdateRoute(r, en)
    \/ DeleteCall

TableSpec == EngineInit(MaxRoutes, TRUE, MaxRetries) /\ [][TableNext]_vars

\* The route API on the running engine: the calls of the web interface, start()
\* and the monitor turning pending starts into tasks; the tasks do not run.
ApiNext ==
    \/ ApiCreate
    \/ RouteCalls
    \/ StartEngine
    \/ MonitorWake
    \/ \E r \in RouteIds : MonitorStop(r)
    \/ MonitorSleep

ApiSpec == EngineInit(MaxRoutes, TRUE, MaxRetries) /\ [][ApiNext]_vars

\* ------------------------------------------------------ route table claims

\* Some route of the table connects this source to this sink.
PairTaken(src, snk) ==
    \E r \in RouteIds :
        /\ routes[r].present
        /\ <<routes[r].source_id, routes[r].sink_id>> = <<src, snk>>

\* C4: in every reachable state the route table holds at most one route for
\* any (source_id, sink_id) pair.
C4_OneRoutePerPair ==
    \A r1, r2 \in RouteIds :
        (/\ routes[r1].present
         /\ routes[r2].present
         /\ routes[r1].source_id = routes[r2].source_id
         /\ routes[r1].sink_id = routes[r2].sink_id) => r1 = r2

\* C5: a create_route call for a pair that already has a route returns None
\* (the web interface answers 409) and changes neither a route of the table
\* nor its enabled flag nor pending_starts.
C5_DuplicateCreateRefused ==
    [][\A src \in SourceIds, snk \in SinkIds, mode \in Modes, en \in BOOLEAN :
        (/\ PairTaken(src, snk)
         /\ CreateRoute(src, snk, mode, en)
         /\ created' = create_route_result(src, snk))
        => (/\ created' = "None"
            /\ routes' = routes
            /\ pendingStarts' = pendingStarts)]_vars

\* A duplicate create has been refused on a running engine that holds a route
\* and a pending start.
C5_Witness ==
    /\ created = "None"
    /\ running
    /\ pendingStarts # {}
    /\ \E src \in SourceIds, snk \in SinkIds : PairTaken(src, snk)

\* ---------------------------------------------------------- liveness claims

\* An unfinished _run_route task of the route is registered in _route_tasks.
TaskAlive(r) == r \in regTasks /\ ~TaskFinished(r)

\* The devices of the route are online (a virtual source is no device).
BothOnline(r) ==
    /\ is_virtual_source(routes[r].source_id) \/ DeviceOnline(routes[r].source_id)
    /\ DeviceOnline(routes[r].sink_id)

\* The route is in the table of the running engine and enabled.
EnabledRoute(r) == running /\ routes[r].present /\ routes[r].enabled

\* No control client, sender, receiver or stream id.
Released(r) ==
    /\ routes[r].sink_client = "none"
    /\ routes[r].source_client = "none"
    /\ ~routes[r].sender
    /\ ~routes[r].receiver
    /\ ~routes[r].sink_stream_id
    /\ ~routes[r].source_stream_id

\* C1: while the engine runs, a route whose enabled flag is true from some
\* point on eventually has an unfinished _run_route task registered, whatever
\* the interleaving of enable, disable and update calls with monitor passes.
C1_EnabledRouteGetsTask ==
    \A r \in RouteIds : []([]EnabledRoute(r) => <>TaskAlive(r))

\* C2: an enabled proxy route whose source and sink stay online and answer
\* every request with status ok eventually has status connected.
C2_ProxyRouteConnects ==
    \A r \in RouteIds :
        []([](/\ EnabledRoute(r)
              /\ routes[r].mode = "proxy"
              /\ BothOnline(r)
              /\ netOk)
           => <>(routes[r].status = "connected"))

\* C3: a connected, enabled route whose source or sink is offline is no longer
\* connected after the next look at its devices, becomes disconnected with its
\* resources released while the device stays offline, and is connected again
\* once both devices stay online and answer, with no call on the route in
\* between (its enabled flag stays true).
C3_ReconnectsAfterOffline ==
    /\ [][\A r \in RouteIds :
            (/\ routes[r].status = "connected"
             /\ EnabledRoute(r)
             /\ ~BothOnline(r)
             /\ TaskRenderLoop(r, "check"))
            => routes'[r].status # "connected"]_vars
    /\ \A r \in RouteIds :
        /\ []((/\ routes[r].status = "connected"
                /\ [](EnabledRoute(r) /\ ~BothOnline(r)))
               => <>(routes[r].status = "disconnected" /\ Released(r)))
        /\ []((/\ routes[r].status = "connected"
                /\ ~BothOnline(r)
                /\ []EnabledRoute(r)
                /\ <>[](BothOnline(r) /\ netOk))
               => []<>(routes[r].status = "connected"))

\* ------------------------------------------------------------ stop claims

\* The monitor is inside _stop_route for the route.
MonitorStopping(r) ==
    monitor.route = r /\ monitor.pc \in {"await_task"} \cup CleanupPoints

\* C6 as stated: in every reachable state a route of the table whose enabled
\* flag is false has no stream id, sender, receiver or control client.
C6_DisabledHoldsNothing ==
    \A r \in RouteIds :
        (routes[r].present /\ ~routes[r].enabled) => Released(r)

\* C6: while the engine runs, a route of the table whose enabled flag is false
\* has no stream id, sender, receiver or control client once the monitor has
\* taken its id from pending_stops and finished _stop_route for it.
C6_StoppedRouteHoldsNothing ==
    \A r \in RouteIds :
        (/\ running
         /\ routes[r].present
         /\ ~routes[r].enabled
         /\ r \notin pendingStops
         /\ ~MonitorStopping(r)) => Released(r)

\* The route has been disabled and stopped by the monitor after its task ran.
C6_Witness ==
    \E r \in RouteIds :
        /\ running
        /\ routes[r].present /\ ~routes[r].enabled
        /\ r \notin pendingStops /\ ~MonitorStopping(r)
        /\ monitor.pc = "sleep"
        /\ r \notin regTasks /\ task[r].pc = "done"
        /\ Released(r)

InsideStopRoute == {"await_task"} \cup CleanupPoints

\* A _stop_route call for the route returns in this step: the one of the
\* monitor for a pending stop, the one of delete_route or the one of stop(),
\* either straight away or after its last suspension.
StopRouteReturns(r) ==
    \/ /\ monitor.pc = "stops" /\ monitor'.pc = "stops"
       /\ r \in pendingStops /\ r \notin pendingStops'
       /\ routes[r].present
    \/ /\ MonitorStopping(r) /\ monitor'.pc = "stops"
    \/ /\ deleter[r] = "idle" /\ deleter'[r] = "idle"
       /\ routes[r].present /\ ~routes'[r].present
    \/ /\ deleter[r] \in InsideStopRoute /\ deleter'[r] = "idle"
    \/ /\ stopper.route = r /\ stopper'.route = r + 1
       /\ stopper.pc \in {"routes"} \cup InsideStopRoute /\ stopper'.pc = "routes"
       /\ routes[r].present

\* C7: when _stop_route returns for a route, wherever its task was cancelled
\* and whatever the outcome of the STOP requests, the route has no control
\* client, sender, receiver or stream id and its status is disconnected.
C7_StopRouteReleases ==
    [][\A r \in RouteIds :
        StopRouteReturns(r)
        => (Released(r)' /\ routes'[r].status = "disconnected")]_vars

\* stop() has stopped a route whose task had run.
C7_Witness ==
    \E r \in RouteIds :
        /\ phase = "stopped" /\ stopper.pc = "done"
        /\ routes[r].present /\ task[r].pc = "done"
        /\ Released(r) /\ routes[r].status = "disconnected"

\* ------------------------------------------------------------ retry claims

Failed(r) == routes[r].error_message \in {"timeout", "exception"}

\* An attempt of the route fails in this step: an except branch other than
\* the one for CancelledError is taken.
AttemptFails(r) == ~Failed(r) /\ Failed(r)'

Transitions ==
    {<<"disconnected", "connecting">>, <<"connecting", "connected">>,
     <<"connecting", "disconnected">>, <<"connected", "disconnected">>}

\* C9: the status of a route changes only from disconnected to connecting,
\* from connecting to connected and from connecting or connected to
\* disconnected: never from disconnected to connected, never from connected
\* to connecting.
C9_StatusTransitions ==
    [][\A r \in RouteIds :
        \/ routes'[r].status = routes[r].status
        \/ <<routes[r].status, routes'[r].status>> \in Transitions]_vars

\* A route is connected on its second attempt.
C9_Witness ==
    \E r \in RouteIds :
        /\ routes[r].status = "connected"
        /\ task[r].delay > InitialDelay

\* C10: the first retry delay is 2 s, every backoff sleep is followed by the
\* delay min(1.5 x delay, 30 s), and no delay exceeds 30 s.
C10_BackoffDelay ==
    /\ [](\A r \in RouteIds :
            /\ task[r].delay >= 2 * TicksPerSecond
            /\ task[r].delay <= 30 * TicksPerSecond
            /\ task[r].pc = "new" => task[r].delay = 2 * TicksPerSecond)
    /\ [][\A r \in RouteIds :
            \/ task'[r].delay = task[r].delay /\ ~(task[r].pc = "backoff" /\ task'[r].pc = "attempt")
            \/ task'[r].pc \in {"new", "done"} /\ task'[r].delay = 2 * TicksPerSecond
            \/ /\ task[r].pc = "backoff"
               /\ 2 * task'[r].delay = Min(3 * task[r].delay, 60 * TicksPerSecond)]_vars

\* A task sleeps the longest delay, 30 s.
C10_Witness ==
    \E r \in RouteIds :
        task[r].pc = "backoff" /\ task[r].delay = 30 * TicksPerSecond

\* C30: a route whose source client is connected has built and sent its
\* subscribe request, and the request's target carries the callback address:
\* in proxy mode the controller's local address and the bound receiver's port,
\* in direct mode the sink's host and the udp_port of its stream_setup.
C30_SubscribeCarriesCallback ==
    \A r \in RouteIds :
        (routes[r].present /\ routes[r].source_client = "connected" /\ ~TaskFinished(r))
            => LET req == task[r].sub_req
                   callback == CallbackAddress(routes[r])
               IN /\ req.type = "subscribe"
                  /\ DOMAIN callback \subseteq DOMAIN req.target
                  /\ \A k \in DOMAIN callback : req.target[k] = callback[k]

\* The devices of the route that are known and offline (a virtual source is no
\* device).
OfflineSource(r) ==
    /\ ~is_virtual_source(routes[r].source_id)
    /\ DeviceFound(routes[r].source_id) /\ ~online[routes[r].source_id]

OfflineSink(r) == DeviceFound(routes[r].sink_id) /\ ~online[routes[r].sink_id]

\* Source and sink of the route are found.
DevicesFound(r) ==
    /\ is_virtual_source(routes[r].source_id) \/ DeviceFound(routes[r].source_id)
    /\ DeviceFound(routes[r].sink_id)

\* The clients, sender, receiver and stream ids of the route.
Resources(rt) ==
    <<rt.sink_client, rt.source_client, rt.sender, rt.receiver,
      rt.sink_stream_id, rt.source_stream_id>>

\* C31: an attempt that starts with the source or the sink offline sets the
\* status disconnected and the message "Waiting for: ..." naming every
\* offline device, creates no client and builds no request, and sleeps with
\* the reconnect delay as it is; the end of that sleep leaves the delay as it
\* is and leads, through the cleanup, to the next attempt's check (or ends the
\* task of a route disabled, stopped or cancelled meanwhile).
C31_OfflineWait ==
    [][\A r \in RouteIds :
        /\ (/\ task[r].pc = "attempt" /\ task'[r].pc # "attempt"
             /\ DevicesFound(r)
             /\ (OfflineSource(r) \/ OfflineSink(r)))
            => /\ routes'[r].status = "disconnected"
               /\ routes'[r].error_message = WaitingFor(OfflineSource(r), OfflineSink(r))
               /\ Resources(routes'[r]) = Resources(routes[r])
               /\ task'[r] = [task[r] EXCEPT !.pc = "wait"]
        /\ (task[r].pc = "wait" /\ task'[r].pc # "wait")
            => /\ task'[r].pc \in {"attempt", "done"} \cup CleanupPoints
               /\ task'[r].pc # "done" => task'[r].delay = task[r].delay
               /\ task'[r].sub_req = NoRequest
               /\ (task'[r].pc = "attempt") =>
                      (routes'[r].enabled /\ ~task[r].cancel)]_vars

\* A task whose delay has grown waits for both devices.
C31_Witness ==
    \E r \in RouteIds :
        /\ task[r].pc = "wait"
        /\ task[r].delay > InitialDelay
        /\ routes[r].error_message = "Waiting for: source, sink"

\* C35: a _run_route task is created for a route id (by start() or by the
\* monitor) only when no unfinished task of that id exists, whatever calls and
\* monitor passes came before: no route id ever has two unfinished tasks.
C35_OneTaskPerRoute ==
    [][\A r \in RouteIds :
        (\/ r \in regTasks' /\ r \notin regTasks
         \/ task'[r].pc = "new" /\ task[r].pc # "new")
            => TaskFinished(r)]_vars

\* The monitor has created a task for a route that an earlier task of the same
\* id left with an error message.
C35_Witness ==
    \E r \in RouteIds :
        /\ task[r].pc = "new"
        /\ r \in regTasks
        /\ routes[r].error_message # "none"

\* _cleanup_route is running on the route: in the route's own task, or in
\* the _stop_route of the monitor, of delete_route or of stop().
Releasing(r) ==
    \/ task[r].pc \in CleanupPoints
    \/ deleter[r] \in CleanupPoints
    \/ monitor.route = r /\ monitor.pc \in CleanupPoints
    \/ stopper.route = r /\ stopper.pc \in CleanupPoints

\* C36: a route with status connected has its sink client and sink stream id,
\* a route from a device also its source client and source stream id, and
\* its resources are not being released.
C36_ConnectedHoldsResources ==
    \A r \in RouteIds :
        routes[r].status = "connected" =>
            /\ routes[r].sink_client = "connected"
            /\ routes[r].sink_stream_id
            /\ ~is_virtual_source(routes[r].source_id) =>
                   /\ routes[r].source_client = "connected"
                   /\ routes[r].source_stream_id
            /\ ~Releasing(r)

\* ------------------------------------------------------------ delete claims

\* A delete_route call for the route returns true in this step: straight away
\* (no suspension inside _stop_route) or after its last suspension.
DeleteReturnsTrue(r) ==
    \/ /\ routes[r].present /\ ~routes'[r].present
       /\ deleter[r] = "idle" /\ deleter'[r] = "idle"
    \/ /\ deleter[r] \in InsideStopRoute /\ deleter'[r] = "idle"

\* The task of the route has finished, has a cancellation pending or is in the
\* finally-cleanup that follows `except CancelledError: break`.
TaskCancelled(r) ==
    \/ TaskFinished(r)
    \/ task[r].cancel
    \/ task[r].pc \in CleanupPoints /\ task[r].after = "break"

\* C37: when delete_route returns true the route is not in the table, has no
\* entry in _route_tasks, its task is cancelled or finished and it holds no
\* stream, sender, receiver or client; and no task is created or registered
\* for an id that is not in the table, pending start or stop or not.
C37_DeletedRouteStaysStopped ==
    [][\A r \in RouteIds :
        /\ DeleteReturnsTrue(r)
            => /\ ~routes'[r].present
               /\ r \notin regTasks'
               /\ TaskCancelled(r)'
               /\ Released(r)'
        /\ (r <= nextId /\ ~routes[r].present)
            => /\ ~routes'[r].present
               /\ ~(task'[r].pc = "new" /\ task[r].pc # "new")
               /\ ~(r \in regTasks' /\ r \notin regTasks)]_vars

\* delete_route has returned for an enabled route whose task had run, with the
\* id still in pending_starts: only the table lookup keeps the monitor's next
\* pass from starting a task.
C37_Witness ==
    \E r \in RouteIds :
        /\ r <= nextId /\ ~routes[r].present /\ routes[r].enabled
        /\ deleter[r] = "idle"
        /\ task[r].pc = "done" /\ r \notin regTasks
        /\ r \in pendingStarts
        /\ monitor.pc = "sleep" /\ running
        /\ Released(r)

\* ------------------------------------------------------------ delay claims

\* The task of the route goes on in this step: it is not replaced by a new
\* task and does not end.
TaskGoesOn(r) == ~TaskFinished(r) /\ task'[r].pc \notin {"none", "new", "done"}

\* C40: while a route task goes on its reconnect delay never decreases and
\* never exceeds 30 s; a failure of a connected route leaves the delay as it
\* is, so the backoff sleep that follows lasts the delay the sequence had
\* reached, and the delay after that sleep is the next value of the sequence.
C40_DelayNeverDecreases ==
    [][\A r \in RouteIds :
        /\ TaskGoesOn(r)
           => /\ task'[r].delay >= task[r].delay
              /\ task'[r].delay <= MaxDelay
        /\ (routes[r].status = "connected" /\ AttemptFails(r))
           => /\ task'[r].delay = task[r].delay
              /\ (routes[r].enabled /\ running)
                 => task'[r].pc \in CleanupPoints \cup {"backoff"}
        /\ (TaskGoesOn(r) /\ task[r].pc = "backoff" /\ task'[r].pc # "backoff")
           => task'[r].delay = NextDelay(task[r].delay)]_vars

\* A virtual route on a retry has failed with its sink offline (the failure of
\* the render loop's look at the sink), and its task sleeps the backoff with
\* the delay the sequence had reached.
C40_Witness ==
    \E r \in RouteIds :
        /\ is_virtual_source(routes[r].source_id)
        /\ routes[r].enabled /\ running
        /\ ~DeviceOnline(routes[r].sink_id)
        /\ task[r].pc = "backoff" /\ Failed(r)
        /\ task[r].delay > InitialDelay /\ task[r].delay < MaxDelay

\* ------------------------------------- controller: discovery and health check
\* (ltp_controller/controller.py, libltp/discovery.py)

\* DeviceState.id with the stable id left out: the id follows the announced
\* device id.
id_of_announcement(state, name) ==
    IF state.device_id # "none" THEN state.device_id ELSE name

\* DeviceState.id: the stable id when set, else the device's id as a string,
\* else the service name.
id(state, name) ==
    IF state.stable_id # "none" THEN state.stable_id
    ELSE IF state.device_id # "none" THEN state.device_id
    ELSE name

\* DeviceState.set_stable_id
set_stable_id(state, name) ==
    IF state.stable_id = "none"
    THEN [state EXCEPT !.stable_id = id(state, name)]
    ELSE state

\* _handle_source: the new value of _sources[name].
handle_source(name, device_id, is_added) ==
    IF is_added
    THEN IF devices[name].known
         THEN [devices[name] EXCEPT !.device_id = device_id, !.online = TRUE]
         ELSE set_stable_id(NewDeviceState(device_id), name)
    ELSE IF devices[name].known
         THEN [devices[name] EXCEPT !.online = FALSE]
         ELSE devices[name]

\* _handle_sink: the new value of _sinks[name].
handle_sink(name, device_id, is_added) ==
    IF is_added
    THEN IF devices[name].known
         THEN [devices[name] EXCEPT !.device_id = device_id, !.online = TRUE]
         ELSE set_stable_id(NewDeviceState(device_id), name)
    ELSE IF devices[name].known
         THEN [devices[name] EXCEPT !.online = FALSE]
         ELSE devices[name]

\* _on_device_discovered: sources and sinks are told apart by service type.
on_device_discovered(name, device_id, is_added) ==
    devices' = [devices EXCEPT ![name] =
                   IF name \in SourceNames
                   THEN handle_source(name, device_id, is_added)
                   ELSE handle_sink(name, device_id, is_added)]

\* ServiceBrowser._add_service, for ServiceStateChange.Added and Updated: the
\* resolved announcement replaces the browser's entry and the callback runs.
ServiceAdded(name, device_id) ==
    /\ browser' = [browser EXCEPT ![name] = device_id]
    /\ on_device_discovered(name, device_id, TRUE)
    /\ UNCHANGED <<outsideDevices>>

\* ServiceBrowser._remove_service: the callback runs for a name the browser
\* holds.
ServiceRemoved(name) ==
    /\ browser[name] # "absent"
    /\ browser' = [browser EXCEPT ![name] = "absent"]
    /\ on_device_discovered(name, browser[name], FALSE)
    /\ UNCHANGED <<outsideDevices>>

\* A faulty failure branch that gives up one check early.
ping_failed_early(state) ==
    LET failures == state.consecutive_failures + 1
    IN  [state EXCEPT !.consecutive_failures = failures,
                      !.online = IF state.online
                                    /\ failures >= FailuresBeforeOffline - 1
                                 THEN FALSE ELSE state.online]

\* _ping_device, the except branch: count the failure, and mark an online
\* device offline once the count has reached FAILURES_BEFORE_OFFLINE.
ping_failed(state) ==
    LET failures == state.consecutive_failures + 1
    IN  [state EXCEPT !.consecutive_failures = failures,
                      !.online = IF state.online
                                    /\ failures >= FailuresBeforeOffline
                                 THEN FALSE ELSE state.online]

\* _ping_device, the connection having opened and closed: reset the count and
\* mark the device online.
ping_succeeded(state) ==
    [state EXCEPT !.consecutive_failures = 0, !.online = TRUE]

\* One _ping_device call of the health check loop that fails.
PingFailed(name) ==
    /\ devices[name].known
    /\ devices[name].consecutive_failures < MaxFailures
    /\ devices' = [devices EXCEPT ![name] = ping_failed(devices[name])]
    /\ UNCHANGED <<outsideDevices, browser>>

\* One _ping_device call of the health check loop that succeeds.
PingSucceeded(name) ==
    /\ devices[name].known
    /\ devices' = [devices EXCEPT ![name] = ping_succeeded(devices[name])]
    /\ UNCHANGED <<outsideDevices, browser>>

DeviceNext ==
    \/ \E name \in ServiceNames, device_id \in DeviceIds :
        ServiceAdded(name, device_id)
    \/ \E name \in ServiceNames : ServiceRemoved(name)
    \/ \E name \in ServiceNames : PingFailed(name)
    \/ \E name \in ServiceNames : PingSucceeded(name)

\* The controller's device table under discovery events and health checks.
DeviceInit == EngineIdle /\ PeersIdle

DeviceSpec == DeviceInit /\ [][DeviceNext]_vars

\* C11: a failed health check of an online device leaves it online while the
\* count of failures in a row is below 5 and makes it offline once the count
\* has reached 5; a successful health check sets the device online and the
\* count to 0.
C11_HealthCheckThreshold ==
    [][\A name \in ServiceNames :
        /\ (PingFailed(name) /\ devices[name].online) =>
               (devices'[name].online <=>
                    devices'[name].consecutive_failures < FailuresBeforeOffline)
        /\ PingSucceeded(name) =>
               /\ devices'[name].online
               /\ devices'[name].consecutive_failures = 0]_vars

\* The fifth failure in a row has made an announced device offline.
C11_Witness ==
    \E name \in ServiceNames :
        /\ devices[name].known
        /\ browser[name] # "absent"
        /\ ~devices[name].online
        /\ devices[name].consecutive_failures = FailuresBeforeOffline

\* C12: the online flag of a device goes from true to false only when its
\* count of failed health checks in a row has reached 5: a "removed" event of
\* the discovery does not change it.
C12_RemovedIsAdvisory ==
    [][\A name \in ServiceNames :
        (devices[name].known /\ devices[name].online /\ ~devices'[name].online)
            => devices'[name].consecutive_failures >= FailuresBeforeOffline]_vars

\* The device is marked online in this step: by a discovery add or update
\* event or by a health check that succeeded.
MarkedOnline(name) ==
    \/ \E device_id \in DeviceIds : ServiceAdded(name, device_id)
    \/ PingSucceeded(name)

\* C38: a health check flips a device from online to offline only on the fifth
\* failure in a row since the device was last marked online: the flip needs a
\* count of at least 5, every marking (successful check, discovery add or
\* update) starts the count anew, and so one failed check right after a
\* discovery event leaves the device online.
C38_FiveFailuresSinceMarkedOnline ==
    [][\A name \in ServiceNames :
        /\ (PingFailed(name) /\ devices[name].online /\ ~devices'[name].online)
               => devices'[name].consecutive_failures >= FailuresBeforeOffline
        /\ MarkedOnline(name)
               => /\ devices'[name].online
                  /\ devices'[name].consecutive_failures = 0
                  /\ ping_failed(devices'[name]).online]_vars

\* C13: the id of a DeviceState never changes once the device is known,
\* whatever device id later announcements carry.
C13_StableId ==
    [][\A name \in ServiceNames :
        devices[name].known =>
            /\ devices'[name].known
            /\ id(devices'[name], name) = id(devices[name], name)]_vars

\* A device announces another id than the one it was first discovered with.
C13_Witness ==
    \E name \in ServiceNames :
        /\ devices[name].known
        /\ devices[name].device_id # "none"
        /\ id(devices[name], name) # devices[name].device_id

\* ------------------------------------------ control client (libltp/transport.py)

\* Seqs a message read from the connection may carry: none, or any number a
\* request could have been sent with.
ArrivingSeqs == {NoSeq} \cup Requests

\* A faulty _next_seq that hands out the current number again.
next_seq_reused(seq) == IF seq = 0 THEN 1 ELSE seq

\* _next_seq: the value of _seq after the increment, which is returned.
next_seq(seq) == seq + 1

\* ControlClient.connect: the connection is open and its handle_messages task
\* reads from it.
ClientConnect ==
    /\ ~client.connected
    /\ client' = [client EXCEPT !.connected = TRUE]
    /\ UNCHANGED <<outsideClient, calls, wire, handled>>

\* The connection closes (peer or close()): handle_messages ends, is_connected
\* is false from now on.
ConnectionClosed ==
    /\ client.connected
    /\ client' = [client EXCEPT !.connected = FALSE]
    /\ UNCHANGED <<outsideClient, calls, wire, handled>>

\* request(), up to its first suspension: refuse when not connected; else
\* take the next seq, store a future under it and write the message.
RequestStart(r) ==
    /\ calls[r].pc = "new"
    /\ IF ~client.connected
       THEN /\ calls' = [calls EXCEPT ![r].pc = "raised",
                                          ![r].error = "ConnectionError"]
            /\ UNCHANGED <<client, wire>>
       ELSE LET seq == next_seq(client.seq)
            IN  /\ client' = [client EXCEPT !.seq = seq, !.pending[seq] = r]
                /\ calls' = [calls EXCEPT ![r].pc = "waiting", ![r].seq = seq]
                /\ wire' = [wire EXCEPT !.sent = Append(@, seq)]
    /\ UNCHANGED <<outsideClient, handled>>

\* What ends a request that is waiting: the timeout of wait_for, or an
\* exception of the send or of the connection.
RequestErrors == {"TimeoutError", "Exception"}

\* A faulty variant of the except branches that leaves the entry in _pending;
\* C32 must notice it.
RequestRaisesKeepingEntry(r, error) ==
    /\ calls[r].pc = "waiting"
    /\ calls' = [calls EXCEPT ![r].pc = "raised", ![r].error = error]
    /\ UNCHANGED <<outsideClient, client, wire, handled>>

\* request(), the except branches: the send failed or the timeout ran out;
\* the entry under the request's seq is dropped and the exception goes on
\* to the caller.
RequestRaises(r, error) ==
    /\ calls[r].pc = "waiting"
    /\ client' = [client EXCEPT !.pending[calls[r].seq] = 0]
    /\ calls' = [calls EXCEPT ![r].pc = "raised", ![r].error = error]
    /\ UNCHANGED <<outsideClient, wire, handled>>

\* future.set_result(message), and request() returning it.
set_result(r, message) ==
    [calls EXCEPT ![r].pc = "returned", ![r].result = message]

\* A faulty _handle_response that gives a message it cannot match to the
\* oldest pending request.
handle_response_to_oldest(message) ==
    LET entries == {n \in Requests : client.pending[n] # 0}
    IN  IF message.seq # NoSeq /\ message.seq \in entries
        THEN /\ client' = [client EXCEPT !.pending[message.seq] = 0]
             /\ calls' = set_result(client.pending[message.seq], message)
             /\ UNCHANGED handled
        ELSE IF entries # {}
        THEN LET n == CHOOSE n \in entries : \A k \in entries : n <= k
             IN  /\ client' = [client EXCEPT !.pending[n] = 0]
                 /\ calls' = set_result(client.pending[n], message)
                 /\ UNCHANGED handled
        ELSE /\ handled' = IF client.handler THEN Append(handled, message)
                           ELSE handled
             /\ UNCHANGED <<client, calls>>

\* _handle_response: a message whose seq has an entry in _pending resolves
\* that future and takes the entry out; any other message goes to the
\* handler when there is one.
handle_response(message) ==
    IF message.seq # NoSeq /\ message.seq \in Requests
       /\ client.pending[message.seq] # 0
    THEN /\ client' = [client EXCEPT !.pending[message.seq] = 0]
         /\ calls' = set_result(client.pending[message.seq], message)
         /\ UNCHANGED handled
    ELSE /\ handled' = IF client.handler THEN Append(handled, message)
                       ELSE handled
         /\ UNCHANGED <<client, calls>>

\* handle_messages of the client's connection reads one message and hands it
\* to _handle_response.
Receive(seq) ==
    /\ client.connected
    /\ wire.received < MaxArrivals
    /\ wire' = [wire EXCEPT !.received = @ + 1]
    /\ handle_response([seq |-> seq, id |-> wire.received + 1])
    /\ UNCHANGED <<outsideClient>>

ClientNext ==
    \/ ClientConnect
    \/ ConnectionClosed
    \/ \E r \in Requests : RequestStart(r)
    \/ \E r \in Requests, error \in RequestErrors : RequestRaises(r, error)
    \/ \E seq \in ArrivingSeqs : Receive(seq)

\* One control client, with or without a fallback handler, its callers and
\* the messages its peer sends in any order.
ClientInit ==
    /\ EngineIdle
    /\ DevicesIdle
    /\ ServerIdle
    /\ StreamsIdle
    /\ UnitsIdle
    /\ client \in {NewClient(handler) : handler \in BOOLEAN}
    /\ calls = [r \in Requests |-> NoCall]
    /\ wire = [sent |-> <<>>, received |-> 0]
    /\ handled = <<>>

ClientSpec == ClientInit /\ [][ClientNext]_vars

\* The call waiting for an answer to the request sent with this seq.
Waiting(r, seq) == calls[r].pc = "waiting" /\ calls[r].seq = seq

\* C14: no two requests written to the connection carry the same seq, and a
\* message read with seq N makes the call that sent seq N return that very
\* message while every other call stays as it is.
C14_ResponseResolvesItsRequest ==
    /\ [](\A i, j \in 1..Len(wire.sent) :
            i # j => wire.sent[i] # wire.sent[j])
    /\ [][\A seq \in ArrivingSeqs : Receive(seq) =>
            \A r \in Requests :
                IF Waiting(r, seq)
                THEN /\ calls'[r].pc = "returned"
                     /\ calls'[r].result = [seq |-> seq, id |-> wire'.received]
                ELSE calls'[r] = calls[r]]_vars

\* Two requests were in flight together and were answered in the opposite
\* order.
C14_Witness ==
    \E r1, r2 \in Requests :
        /\ calls[r1].pc = "returned" /\ calls[r2].pc = "returned"
        /\ calls[r1].seq < calls[r2].seq
        /\ calls[r1].result.id > calls[r2].result.id
        /\ calls[r1].result.seq = calls[r1].seq

\* C15: a message read without seq, or with a seq no call is waiting for,
\* leaves every call as it is and is appended to what the fallback handler
\* was given when the client has a handler.
C15_UnmatchedGoesToHandler ==
    [][\A seq \in ArrivingSeqs :
        (Receive(seq) /\ ~\E r \in Requests : Waiting(r, seq)) =>
            /\ calls' = calls
            /\ client.handler =>
                   handled' = Append(handled, [seq |-> seq, id |-> wire'.received])]_vars

\* The handler was given a message without seq and one with a seq nobody
\* waited for, while a call was waiting.
C15_Witness ==
    /\ \E i \in 1..Len(handled) : handled[i].seq = NoSeq
    /\ \E i \in 1..Len(handled) : handled[i].seq # NoSeq
    /\ \E r \in Requests : calls[r].pc = "waiting"

\* The call that sent this seq has ended with the timeout.
TimedOut(r, seq) ==
    calls[r].pc = "raised" /\ calls[r].error = "TimeoutError" /\ calls[r].seq = seq

\* C32: a request whose timeout runs out raises the timeout error to its
\* caller and its seq has no entry in _pending any more; a message read later
\* with that seq changes no call and is appended to what the fallback handler
\* was given when the client has a handler (and dropped when it has none).
C32_TimeoutDropsPending ==
    [][/\ \A r \in Requests :
            RequestRaises(r, "TimeoutError") =>
                /\ calls'[r].pc = "raised"
                /\ calls'[r].error = "TimeoutError"
                /\ client'.pending[calls[r].seq] = 0
                /\ \A q \in Requests \ {r} : calls'[q] = calls[q]
       /\ \A seq \in Requests :
            (Receive(seq) /\ \E r \in Requests : TimedOut(r, seq)) =>
                /\ calls' = calls
                /\ client'.pending = client.pending
                /\ handled' = IF client.handler
                              THEN Append(handled, [seq |-> seq, id |-> wire'.received])
                              ELSE handled]_vars

\* The answer to a request that timed out was given to the handler while
\* another call was waiting.
C32_Witness ==
    \E r, q \in Requests :
        /\ calls[r].pc = "raised" /\ calls[r].error = "TimeoutError"
        /\ \E i \in 1..Len(handled) : handled[i].seq = calls[r].seq
        /\ calls[q].pc = "waiting"

\* ------------------------------ control server connection (libltp/transport.py)

\* Types of the messages a peer sends; "malformed" is a line that
\* Message.from_bytes cannot parse.
RequestTypes == {"capability_request", "stream_setup"}
ArrivingTypes == RequestTypes \cup {"malformed"}

\* The type of the response the device's handler builds for a request.
ResponseType(type) ==
    IF type = "capability_request" THEN "capability_response"
    ELSE "stream_setup_response"

\* What a call of the handler ends with: a response, nothing (None), or an
\* exception.
HandlerOutcomes == {"response", "none", "raise"}

\* The response the handler returns for the request at place `re` of the
\* stream: it echoes the request's seq.
Response(re) ==
    [type |-> ResponseType(stream[re].type), seq |-> stream[re].seq,
     status |-> "ok", re |-> re]

\* handle_messages, except Exception: Message(message.type, message.seq,
\* status="error", error=str(e)).
error_msg(re) ==
    [type |-> stream[re].type, seq |-> stream[re].seq,
     status |-> "error", re |-> re]

\* control_changed(values), the message a broadcast sends.
control_changed ==
    [type |-> "control_changed", seq |-> NoSeq, status |-> "none", re |-> 0]

\* A faulty write that puts the data in front of what is already written.
write_first(written, message) == <<message>> \o written

\* self.writer.write(data): the data follows what is already written.
write(written, message) == Append(written, message)

\* The peer sends one more message.
Arrive(type, seq) ==
    /\ Len(stream) < MaxStream
    /\ stream' = Append(stream, [type |-> type, seq |-> seq])
    /\ UNCHANGED <<outsideServer, conn, outbox>>

\* What the handler's end makes handle_messages write for the request at
\* place `re`: the response, nothing, or the error message.
Answer(re, outcome) ==
    IF outcome = "response" THEN write(outbox, Response(re))
    ELSE IF outcome = "raise" THEN write(outbox, error_msg(re))
    ELSE outbox

\* handle_messages reads the next message and the handler answers without
\* suspending.
ServeSync(outcome) ==
    /\ ~conn.closed /\ conn.pc = "receive"
    /\ conn.read < Len(stream)
    /\ stream[conn.read + 1].type # "malformed"
    /\ conn' = [conn EXCEPT !.read = @ + 1]
    /\ outbox' = Answer(conn.read + 1, outcome)
    /\ UNCHANGED <<outsideServer, stream>>

\* handle_messages reads the next message and awaits the coroutine the handler
\* returned.
ServeAsync ==
    /\ ~conn.closed /\ conn.pc = "receive"
    /\ conn.read < Len(stream)
    /\ stream[conn.read + 1].type # "malformed"
    /\ conn' = [conn EXCEPT !.read = @ + 1, !.pc = "handler"]
    /\ UNCHANGED <<outsideServer, stream, outbox>>

\* The awaited handler ends.  On a connection closed meanwhile send raises,
\* for the response and for the error message, and handle_messages ends.
HandlerDone(outcome) ==
    /\ conn.pc = "handler"
    /\ IF conn.closed
       THEN /\ conn' = [conn EXCEPT !.pc = "done"]
            /\ UNCHANGED outbox
       ELSE /\ conn' = [conn EXCEPT !.pc = "receive"]
            /\ outbox' = Answer(conn.read, outcome)
    /\ UNCHANGED <<outsideServer, stream>>

\* receive returns None for a line that is no message: handle_messages
\* leaves its loop and closes the connection.
ServeMalformed ==
    /\ ~conn.closed /\ conn.pc = "receive"
    /\ conn.read < Len(stream)
    /\ stream[conn.read + 1].type = "malformed"
    /\ conn' = [conn EXCEPT !.read = @ + 1, !.closed = TRUE, !.pc = "done"]
    /\ UNCHANGED <<outsideServer, stream, outbox>>

\* ControlServer.broadcast: another task writes to the open connection.
Broadcast ==
    /\ ~conn.closed
    /\ conn.broadcasts < MaxBroadcasts
    /\ conn' = [conn EXCEPT !.broadcasts = @ + 1]
    /\ outbox' = write(outbox, control_changed)
    /\ UNCHANGED <<outsideServer, stream>>

\* ControlConnection.close (server stop), or the peer closing: a waiting
\* receive returns None and handle_messages ends.
ConnClose ==
    /\ ~conn.closed
    /\ conn' = [conn EXCEPT !.closed = TRUE,
                            !.pc = IF conn.pc = "receive" THEN "done" ELSE @]
    /\ UNCHANGED <<outsideServer, stream, outbox>>

ServerNext ==
    \/ \E type \in ArrivingTypes, seq \in RequestSeqs : Arrive(type, seq)
    \/ \E outcome \in HandlerOutcomes : ServeSync(outcome)
    \/ ServeAsync
    \/ \E outcome \in HandlerOutcomes : HandlerDone(outcome)
    \/ ServeMalformed
    \/ Broadcast
    \/ ConnClose

\* One connection of a control server, its peer and its handler.
ServerInit == EngineIdle /\ PeersIdle

ServerSpec == ServerInit /\ [][ServerNext]_vars

\* The messages written in answer to a request, in the order written.
Answers == SelectSeq(outbox, LAMBDA m : m.re # 0)

\* C16: the answers written to a connection answer requests already read,
\* one answer for a request at most and in the order the requests arrived,
\* each with the seq of its request; a request is read only when the one
\* before it has been handled.
C16_ResponsesInRequestOrder ==
    /\ \A i \in 1..Len(Answers) :
        /\ Answers[i].re <= conn.read
        /\ Answers[i].seq = stream[Answers[i].re].seq
        /\ conn.pc = "handler" => Answers[i].re < conn.read
    /\ \A i, j \in 1..Len(Answers) : i < j => Answers[i].re < Answers[j].re

\* Every message of a full stream was answered, after a broadcast written
\* before the first answer.
C16_Witness ==
    /\ Len(Answers) = MaxStream
    /\ conn.broadcasts > 0
    /\ outbox[1].re = 0

\* C17: when the handler raises for a request, the message written to the
\* connection has type "error" and the request's seq, and the connection
\* goes on reading requests.
C17_HandlerErrorAnswered ==
    [][(ServeSync("raise") \/ (HandlerDone("raise") /\ ~conn.closed)) =>
        /\ Len(outbox') = Len(outbox) + 1
        /\ outbox'[Len(outbox')].type = "error"
        /\ outbox'[Len(outbox')].seq = stream[conn'.read].seq
        /\ ~conn'.closed /\ conn'.pc = "receive"]_vars

\* ------------------------------------------------- sinks: streams and packets
\* (ltp_sink/sink.py, ltp_serial_sink/sink.py, ltp_artnet/sink.py)

StreamActions == {"start", "stop", "pause"}

\* StreamManager.create_stream followed by nothing else: the new entry of
\* _streams, inactive, under the next stream_id.
create_stream(streams, next_id) ==
    [streams EXCEPT ![next_id + 1] = [NoStream EXCEPT !.created = TRUE]]

\* StreamManager.start_stream: an unknown stream_id is ignored.
start_stream(streams, stream_id) ==
    IF streams[stream_id].created
    THEN [streams EXCEPT ![stream_id].active = TRUE]
    ELSE streams

\* StreamManager.stop_stream: an unknown stream_id is ignored.
stop_stream(streams, stream_id) ==
    IF streams[stream_id].created
    THEN [streams EXCEPT ![stream_id].active = FALSE]
    ELSE streams

\* StreamManager.active_streams
active_streams(streams) == {stream_id \in StreamIds : streams[stream_id].active}

\* _handle_stream_setup, the same in the three sinks: create the stream,
\* start it, answer ok with the UDP port and the stream stream_id.
SinkStreamSetup ==
    /\ sink.next_id < MaxStreams
    /\ sink' = [sink EXCEPT
                   !.next_id = @ + 1,
                   !.streams = start_stream(create_stream(@, sink.next_id),
                                            sink.next_id + 1)]
    /\ UNCHANGED outsideSink

\* A stream_control request.  ltp_sink's _handle_message has no branch for it
\* and returns None.  _handle_stream_control of the serial and Art-Net sinks:
\* START starts the stream, STOP stops it and clears the renderer (serial) or
\* sends a blackout (Art-Net), PAUSE only logs.
SinkStreamControl(stream_id, action) ==
    /\ sink' =
         IF sink.kind = "terminal" THEN sink
         ELSE IF action = "start"
         THEN [sink EXCEPT !.streams = start_stream(@, stream_id)]
         ELSE IF action = "stop"
         THEN [sink EXCEPT !.streams = stop_stream(@, stream_id), !.last_frame = FALSE]
         ELSE sink
    /\ UNCHANGED outsideSink

\* _handle_data_packet.  ltp_sink renders every packet.  The serial and Art-Net
\* sinks return at once without an active stream, and also when the pixel
\* buffer is missing or the output not enabled (`ready` false); else the frame
\* goes to the backend.
SinkDataPacket(ready) ==
    /\ sink.packets < MaxPackets
    /\ sink' =
         IF sink.kind = "terminal"
         THEN [sink EXCEPT !.packets = @ + 1, !.frames = @ + 1,
                           !.last_frame = TRUE]
         ELSE IF active_streams(sink.streams) = {} \/ ~ready
         THEN [sink EXCEPT !.packets = @ + 1]
         ELSE [sink EXCEPT !.packets = @ + 1, !.frames = @ + 1,
                           !.last_frame = TRUE]
    /\ UNCHANGED outsideSink

SinkNext ==
    \/ SinkStreamSetup
    \/ \E stream_id \in StreamIds, action \in StreamActions :
        SinkStreamControl(stream_id, action)
    \/ \E ready \in BOOLEAN : SinkDataPacket(ready)

\* A sink of any of the three kinds, its control requests and data packets.
SinkInit ==
    /\ EngineIdle
    /\ DevicesIdle
    /\ ClientIdle
    /\ ServerIdle
    /\ sink \in {NewSink(kind) : kind \in SinkKinds}
    /\ source = NewSource("pattern")
    /\ UnitsIdle

SinkSpec == SinkInit /\ [][SinkNext]_vars

\* C18: a data packet gives the backend a frame only when one of the sink's
\* streams is active.
C18_FramesOnlyWhileActive ==
    [][sink'.frames # sink.frames => active_streams(sink.streams) # {}]_vars

\* C19: stream_setup creates the stream without making it active; a stream
\* becomes active only by stream_control START; stream_control STOP of a
\* stream leaves it inactive and the renderer cleared.
C19_SinkStreamStates ==
    [][/\ \A stream_id \in StreamIds :
            (~sink.streams[stream_id].created /\ sink'.streams[stream_id].created)
                => ~sink'.streams[stream_id].active
       /\ \A stream_id \in StreamIds :
            (~sink.streams[stream_id].active /\ sink'.streams[stream_id].active)
                => SinkStreamControl(stream_id, "start")
       /\ \A stream_id \in StreamIds :
            (SinkStreamControl(stream_id, "stop") /\ sink.streams[stream_id].created)
                => ~sink'.streams[stream_id].active /\ ~sink'.last_frame]_vars

\* ---------------------------------------------- sources: subscribe and frames
\* (ltp_source/source.py, ltp_media_source/source.py)

\* callback_host / callback_port of a subscribe request; "none" when missing.
Callbacks == {"none", "cb1", "cb2"}

\* ltp_source's _handle_subscribe: create the stream and answer ok with its
\* stream_id; no sender is made and the stream is not started.
PatternSubscribe(callback) ==
    /\ source.kind = "pattern"
    /\ source.next_id < MaxStreams
    /\ source' = [source EXCEPT
                     !.next_id = @ + 1,
                     !.streams = [create_stream(@, source.next_id)
                                     EXCEPT ![source.next_id + 1].answer = "ok"]]
    /\ UNCHANGED outsideSource

\* ltp_media_source's _handle_subscribe up to `await sender.start()`: a
\* request without callback is refused; else the stream is created.
MediaSubscribe(callback) ==
    /\ source.kind = "media"
    /\ source.next_id < MaxStreams
    /\ source' =
         IF callback = "none" THEN source
         ELSE [source EXCEPT
                  !.next_id = @ + 1,
                  !.streams = [create_stream(@, source.next_id)
                                  EXCEPT ![source.next_id + 1].starting = callback]]
    /\ UNCHANGED outsideSource

\* ltp_media_source's _handle_subscribe after `await sender.start()`: when the
\* sender started it is stored and the stream started; subscribe_response is
\* then called with keywords it does not take (dimensions, color_format, rate,
\* no actual), the TypeError leaves the handler and the connection answers
\* with status "error".  A sender that fails to start ends the handler the
\* same way.
MediaSubscribeFinish(stream_id, started) ==
    /\ source.kind = "media"
    /\ source.streams[stream_id].starting # "none"
    /\ source' =
         IF started
         THEN [source EXCEPT
                  !.senders[stream_id] = source.streams[stream_id].starting,
                  !.streams = [start_stream(@, stream_id) EXCEPT
                                  ![stream_id].starting = "none",
                                  ![stream_id].answer = "error"]]
         ELSE [source EXCEPT !.streams[stream_id].starting = "none",
                             !.streams[stream_id].answer = "error"]
    /\ UNCHANGED outsideSource

\* A stream_control request.  ltp_source's _handle_message has no branch for it
\* and returns None.  ltp_media_source's _handle_stream_control: STOP stops the
\* stream and drops its sender, START starts the stream, PAUSE does nothing.
SourceStreamControl(stream_id, action) ==
    /\ source' =
         IF source.kind = "pattern" THEN source
         ELSE IF action = "stop"
         THEN [source EXCEPT !.streams = stop_stream(@, stream_id),
                             !.senders[stream_id] = "none"]
         ELSE IF action = "start"
         THEN [source EXCEPT !.streams = start_stream(@, stream_id)]
         ELSE source
    /\ UNCHANGED outsideSource

\* One turn of the render loop (_render_loop, _send_frame): the frame goes to
\* the sender of every active stream that has one.
RenderFrame ==
    /\ source.rendered < MaxFrames
    /\ source' = [source EXCEPT
                     !.rendered = @ + 1,
                     !.sent = [stream_id \in StreamIds |->
                                  IF stream_id \in active_streams(source.streams)
                                     /\ source.senders[stream_id] # "none"
                                  THEN source.sent[stream_id] + 1
                                  ELSE source.sent[stream_id]]]
    /\ UNCHANGED outsideSource

SourceNext ==
    \/ \E callback \in Callbacks : PatternSubscribe(callback)
    \/ \E callback \in Callbacks : MediaSubscribe(callback)
    \/ \E stream_id \in StreamIds, started \in BOOLEAN :
        MediaSubscribeFinish(stream_id, started)
    \/ \E stream_id \in StreamIds, action \in StreamActions :
        SourceStreamControl(stream_id, action)
    \/ RenderFrame

\* A source of either kind, its control requests and its render loop.
SourceInit ==
    /\ EngineIdle
    /\ DevicesIdle
    /\ ClientIdle
    /\ ServerIdle
    /\ sink = NewSink("terminal")
    /\ source \in {NewSource(kind) : kind \in SourceKinds}
    /\ UnitsIdle

SourceSpec == SourceInit /\ [][SourceNext]_vars

\* C20: a subscribe answered ok has made a new stream that is active and has
\* a sender aimed at the callback of the request, and every rendered frame is
\* sent once to each stream answered ok that is still active.
C20_SubscriberGetsFrames ==
    [][/\ \A callback \in Callbacks :
            (PatternSubscribe(callback) \/ MediaSubscribe(callback)) =>
                \A stream_id \in StreamIds :
                    (/\ ~source.streams[stream_id].created
                     /\ source'.streams[stream_id].answer = "ok")
                        => /\ source'.streams[stream_id].active
                           /\ source'.senders[stream_id] = callback
       /\ \A stream_id \in StreamIds :
            (RenderFrame /\ source.streams[stream_id].answer = "ok")
                => source'.sent[stream_id] = source.sent[stream_id] + 1]_vars

\* --------------------------------- serial sink: render buffer and render thread
\* (ltp_serial_sink/sink.py)

\* Frames handed to _submit_frame; a frame is known by its place in that order.
MaxSubmits == 4

\* self._pending_frame is None
NoFrame == 0

\* Streams one serial sink creates, by the number in "stream-0001".
MaxSerialStreams == 2
SerialStreams == 1..MaxSerialStreams

\* SerialSink.__init__ and start(): empty slot, event clear, counters 0, the
\* render thread waiting for the event; `renderer` is what the backend was
\* given, `connected` is self._renderer.is_connected().
NewRender(connected) ==
    [pending_frame |-> NoFrame, event |-> FALSE, frames_dropped |-> 0,
     frames_rendered |-> 0, submitted |-> 0, pc |-> "wait", frame |-> NoFrame,
     renderer |-> <<>>, connected |-> connected,
     streams |-> [stream_id \in SerialStreams |-> "none"]]

\* _submit_frame, under the lock: count a frame that is still in the slot as
\* dropped, put the new frame in the slot, set the event.
SubmitFrame ==
    /\ render.submitted < MaxSubmits
    /\ render' = [render EXCEPT
                     !.submitted = @ + 1,
                     !.frames_dropped =
                         IF render.pending_frame # NoFrame THEN @ + 1 ELSE @,
                     !.pending_frame = render.submitted + 1,
                     !.event = TRUE]
    /\ UNCHANGED outsideURender

\* StreamManager.active_streams
serial_active_streams == {stream_id \in SerialStreams : render.streams[stream_id] = "active"}

\* _handle_data_packet: a packet that arrives while no stream is active is
\* ignored; else the frame goes to _submit_frame.
HandleDataPacket ==
    /\ serial_active_streams # {}
    /\ SubmitFrame

\* _handle_stream_setup: create_stream gives the next id, start_stream marks
\* the stream active.
SerialStreamSetup ==
    /\ \E stream_id \in SerialStreams :
        /\ render.streams[stream_id] = "none"
        /\ \A other \in SerialStreams : other < stream_id => render.streams[other] # "none"
        /\ render' = [render EXCEPT !.streams[stream_id] = "active"]
    /\ UNCHANGED outsideURender

SerialActions == {"start", "stop", "pause"}

\* _handle_stream_control: START marks a stream of the manager active, STOP
\* marks it inactive and calls self._renderer.clear(), which forgets the
\* renderer's _last_frame (never set by V2Renderer.render) and touches neither
\* the slot nor the event nor the device; PAUSE only logs.
SerialStreamControl(stream_id, action) ==
    /\ render' = [render EXCEPT !.streams[stream_id] =
                     IF render.streams[stream_id] = "none" THEN "none"
                     ELSE IF action = "start" THEN "active"
                     ELSE IF action = "stop" THEN "inactive"
                     ELSE @]
    /\ UNCHANGED outsideURender

\* _render_loop: the event is set; under the lock take the frame out of the
\* slot and clear the event.  Without a frame the loop waits again.
RenderTake ==
    /\ render.pc = "wait" /\ render.event
    /\ render' = [render EXCEPT
                     !.frame = render.pending_frame,
                     !.pending_frame = NoFrame,
                     !.event = FALSE,
                     !.pc = IF render.pending_frame = NoFrame
                            THEN "wait" ELSE "taken"]
    /\ UNCHANGED outsideURender

\* _render_loop, outside the lock: a connected renderer gets the frame and
\* frames_rendered counts it, unless render raises; with the renderer not
\* connected the frame is let go.
RenderDone(raises) ==
    /\ render.pc = "taken"
    /\ render' =
         IF render.connected /\ ~raises
         THEN [render EXCEPT !.renderer = Append(@, render.frame),
                             !.frames_rendered = @ + 1,
                             !.frame = NoFrame, !.pc = "wait"]
         ELSE [render EXCEPT !.frame = NoFrame, !.pc = "wait"]
    /\ UNCHANGED outsideURender

\* The serial device connects or goes away.
RendererConnected(connected) ==
    /\ render.connected # connected
    /\ render' = [render EXCEPT !.connected = connected]
    /\ UNCHANGED outsideURender

RenderNext ==
    \/ HandleDataPacket
    \/ SerialStreamSetup
    \/ \E stream_id \in SerialStreams, action \in SerialActions :
        SerialStreamControl(stream_id, action)
    \/ RenderTake
    \/ \E raises \in BOOLEAN : RenderDone(raises)
    \/ \E connected \in BOOLEAN : RendererConnected(connected)

RenderInit ==
    /\ EngineIdle
    /\ DevicesIdle /\ ClientIdle /\ ServerIdle /\ StreamsIdle
    /\ life = "unused"
    /\ mapper = "unused"
    /\ registry = "unused"
    /\ packet = "unused"
    /\ render \in {NewRender(connected) : connected \in BOOLEAN}

\* The producer (data packets) and the render thread of a serial sink.
RenderSpec == RenderInit /\ [][RenderNext]_vars

\* C21: every submitted frame is rendered, counted as dropped, in the slot or
\* in the render thread's hands, and is only one of these; the frames the
\* renderer got are in submission order.
C21_EveryFrameAccounted ==
    /\ render.submitted =
           render.frames_rendered + render.frames_dropped
           + (IF render.pending_frame # NoFrame THEN 1 ELSE 0)
           + (IF render.frame # NoFrame THEN 1 ELSE 0)
    /\ render.frames_rendered = Len(render.renderer)
    /\ \A i, j \in 1..Len(render.renderer) :
           i < j => render.renderer[i] < render.renderer[j]

\* Every stream the sink has created is stopped.
SerialStopped ==
    /\ serial_active_streams = {}
    /\ \E stream_id \in SerialStreams : render.streams[stream_id] = "inactive"

\* C39: while every stream of the serial sink is stopped, from the handling of
\* the STOP on, the render thread hands no frame to the renderer: a frame that
\* was in the slot or taken by the thread before the STOP is not written.
C39_NoFrameAfterStop ==
    [][(SerialStopped /\ SerialStopped')
        => render'.renderer = render.renderer]_vars

\* ---------------------------------------------------------------------------
\* libltp.protocol: the binary data packet and its datagram
\* ---------------------------------------------------------------------------

PACKET_MAGIC == 19540
HEADER_SIZE == 8
FRAME_HEADER_SIZE == 4

\* ColorFormat and Encoding (libltp.types), by value.
RGB == 1
RGBW == 2
HSV == 3
GRAYSCALE == 4
ColorFormats == {RGB, RGBW, HSV, GRAYSCALE}
RAW == 0
RLE == 1
DELTA == 2
Encodings == {RAW, RLE, DELTA}

bytes_per_pixel(color_format) ==
    CASE color_format = RGB -> 3
      [] color_format = RGBW -> 4
      [] color_format = HSV -> 3
      [] color_format = GRAYSCALE -> 1

\* The longest run one RLE count byte carries.
MaxRunLength == 255

\* Pixel buffers of every length up to MaxPixels, and runs of these lengths.
MaxPixels == 3
LongRuns == {255, 256, 257, 1000}

\* struct.pack / struct.unpack, big-endian: ">H" and ">I".
pack_H(n) == <<(n \div 256) % 256, n % 256>>
unpack_H(b) == b[1] * 256 + b[2]
pack_I(n) == <<(n \div 16777216) % 256, (n \div 65536) % 256,
               (n \div 256) % 256, n % 256>>
unpack_I(b) == b[1] * 16777216 + b[2] * 65536 + b[3] * 256 + b[4]

\* DataPacket.__init__; pixel_data is an array of shape (pixel_count, bpp).
NewPacket(sequence, color_format, pixel_data, encoding, flags) ==
    [status |-> "ok", sequence |-> sequence, color_format |-> color_format,
     encoding |-> encoding, flags |-> flags, pixel_data |-> pixel_data]

\* A call that raised instead of returning a packet: ProtocolError with its
\* code's name, or the ValueError of an enum constructor.
Raised(error) ==
    [status |-> error, sequence |-> 0, color_format |-> 0, encoding |-> 0,
     flags |-> 0, pixel_data |-> <<>>]

NoPacket == Raised("none")

pixel_count(p) == Len(p.pixel_data)

\* _encode_raw: the pixels' bytes, one pixel after the other.
encode_raw(p) ==
    LET bpp == bytes_per_pixel(p.color_format)
    IN  [i \in 1..(Len(p.pixel_data) * bpp) |->
            p.pixel_data[((i - 1) \div bpp) + 1][((i - 1) % bpp) + 1] % 256]

\* _encode_rle, inner loop: how many pixels from position i on (counted from
\* 0) equal pixels[i], stopping at the end and at 255.
run_count(pixels, i) ==
    CHOOSE count \in 1..MaxRunLength :
        /\ i + count <= Len(pixels)
        /\ \A k \in 1..(count - 1) : pixels[i + k + 1] = pixels[i + 1]
        /\ \/ i + count = Len(pixels)
           \/ count = MaxRunLength
           \/ pixels[i + count + 1] # pixels[i + 1]

\* _encode_rle, outer loop from position i: a count byte and the pixel, run
\* after run.
RECURSIVE encode_rle_from(_, _)
encode_rle_from(pixels, i) ==
    IF i < Len(pixels)
    THEN LET count == run_count(pixels, i)
         IN  <<count>> \o pixels[i + 1] \o encode_rle_from(pixels, i + count)
    ELSE <<>>

encode_rle(p) == encode_rle_from(p.pixel_data, 0)

\* to_bytes: packet header, frame header, pixel bytes; an encoding other than
\* RAW and RLE raises INVALID_FORMAT (no bytes).
to_bytes(p) ==
    LET ver_flags == (0 * 16) + (p.flags % 16)
        header == pack_H(PACKET_MAGIC) \o <<ver_flags, 0>> \o pack_I(p.sequence)
        frame_header == <<p.color_format, p.encoding>> \o pack_H(pixel_count(p))
    IN  header \o frame_header
            \o (IF p.encoding = RAW THEN encode_raw(p) ELSE encode_rle(p))

\* _decode_raw without its length check: numpy refuses to reshape a buffer
\* that is too short.
decode_raw_unchecked(data, color_format, count) ==
    LET bpp == bytes_per_pixel(color_format)
        expected_size == count * bpp
    IN  IF Len(data) < expected_size
        THEN [status |-> "ValueError", pixel_data |-> <<>>]
        ELSE [status |-> "ok",
              pixel_data |-> [i \in 1..count |->
                                 SubSeq(data, (i - 1) * bpp + 1, i * bpp)]]

\* _decode_raw: too few bytes raise INVALID_FORMAT; otherwise the first
\* pixel_count * bpp bytes, reshaped.
decode_raw(data, color_format, count) ==
    LET bpp == bytes_per_pixel(color_format)
        expected_size == count * bpp
    IN  IF Len(data) < expected_size
        THEN [status |-> "INVALID_FORMAT", pixel_data |-> <<>>]
        ELSE [status |-> "ok",
              pixel_data |-> [i \in 1..count |->
                                 SubSeq(data, (i - 1) * bpp + 1, i * bpp)]]

\* _decode_rle, the loop from byte pos and pixel pixel_idx (both counted
\* from 0); a run that is cut short ends the loop.
RECURSIVE rle_loop(_, _, _, _, _, _)
rle_loop(data, bpp, count, pos, pixel_idx, result) ==
    IF pos < Len(data) /\ pixel_idx < count
    THEN LET run == data[pos + 1]
             at == pos + 1
         IN  IF at + bpp > Len(data)
             THEN result
             ELSE LET color == SubSeq(data, at + 1, at + bpp)
                      end_idx == IF pixel_idx + run < count
                                 THEN pixel_idx + run ELSE count
                  IN  rle_loop(data, bpp, count, at + bpp, end_idx,
                               [i \in 1..count |->
                                   IF pixel_idx < i /\ i <= end_idx
                                   THEN color ELSE result[i]])
    ELSE result

\* _decode_rle that takes every run for one pixel.
decode_rle_single(data, color_format, count) ==
    LET bpp == bytes_per_pixel(color_format)
    IN  [status |-> "ok",
         pixel_data |-> [i \in 1..count |->
                            IF i * (bpp + 1) <= Len(data)
                            THEN SubSeq(data, (i - 1) * (bpp + 1) + 2, i * (bpp + 1))
                            ELSE [j \in 1..bpp |-> 0]]]

\* _decode_rle: pixel_count pixels, zero where the runs do not reach.
decode_rle(data, color_format, count) ==
    LET bpp == bytes_per_pixel(color_format)
    IN  [status |-> "ok",
         pixel_data |-> rle_loop(data, bpp, count, 0, 0,
                                 [i \in 1..count |-> [j \in 1..bpp |-> 0]])]

\* from_bytes: size check, magic check, the two enum constructors (which
\* raise ValueError for a value that is no member), then the decoder of the
\* encoding; DELTA has none.
from_bytes(data) ==
    IF Len(data) < HEADER_SIZE + FRAME_HEADER_SIZE
    THEN Raised("INVALID_FORMAT")
    ELSE LET magic == unpack_H(SubSeq(data, 1, 2))
             ver_flags == data[3]
             sequence == unpack_I(SubSeq(data, 5, 8))
             flags == ver_flags % 16
             color_fmt == data[9]
             encoding == data[10]
             count == unpack_H(SubSeq(data, 11, 12))
             pixel_bytes == SubSeq(data, 13, Len(data))
         IN  IF magic # PACKET_MAGIC THEN Raised("INVALID_FORMAT")
             ELSE IF color_fmt \notin ColorFormats THEN Raised("ValueError")
             ELSE IF encoding \notin Encodings THEN Raised("ValueError")
             ELSE IF encoding \notin {RAW, RLE} THEN Raised("INVALID_FORMAT")
             ELSE LET decoded == IF encoding = RAW
                                 THEN decode_raw(pixel_bytes, color_fmt, count)
                                 ELSE decode_rle(pixel_bytes, color_fmt, count)
                  IN  IF decoded.status # "ok" THEN Raised(decoded.status)
                      ELSE NewPacket(sequence, color_fmt, decoded.pixel_data,
                                     encoding, flags)

\* Two pixels of a format, and the buffers built from them: every buffer of
\* 1..MaxPixels pixels, and for each long length one run and one run whose
\* last pixel differs.
PixelValues(color_format) ==
    {[j \in 1..bytes_per_pixel(color_format) |-> 0],
     [j \in 1..bytes_per_pixel(color_format) |-> 250 + j]}

PixelBuffers(color_format) ==
    UNION {[1..n -> PixelValues(color_format)] : n \in 1..MaxPixels}
    \cup {[i \in 1..n |-> [j \in 1..bytes_per_pixel(color_format) |-> 250 + j]] :
             n \in LongRuns}
    \cup {[i \in 1..n |-> [j \in 1..bytes_per_pixel(color_format) |->
                              IF i = n THEN 0 ELSE 250 + j]] : n \in LongRuns}

\* DataSender keeps the sequence within 32 bits; TLC's integers end at
\* 2^31 - 1.
SequenceNumbers == {1, 2147483647}

\* What a datagram from the network may look like: cut short, or with one
\* header byte changed.
CutLengths == {0, 7, 11, 12, 13, 14}
ChangedPositions == {1, 2, 9, 10, 12}
ChangedBytes == {0, 1, 2, 3, 9}

\* A sender serializes its packet; DELTA raises.
ToBytes ==
    /\ packet.pc = "packet"
    /\ packet' = IF packet.sent.encoding \in {RAW, RLE}
                 THEN [packet EXCEPT !.pc = "datagram",
                                     !.data = to_bytes(packet.sent)]
                 ELSE [packet EXCEPT !.pc = "raised",
                                     !.got = Raised("INVALID_FORMAT")]
    /\ UNCHANGED outsidePacket

\* The datagram arrives cut short.
Truncate(n) ==
    /\ packet.pc = "datagram"
    /\ ~packet.cut
    /\ n < Len(packet.data)
    /\ packet' = [packet EXCEPT !.cut = TRUE, !.data = SubSeq(@, 1, n)]
    /\ UNCHANGED outsidePacket

\* Another sender's datagram: one header byte differs.
ChangeByte(i, b) ==
    /\ packet.pc = "datagram"
    /\ ~packet.changed
    /\ i <= Len(packet.data)
    /\ packet.data[i] # b
    /\ packet' = [packet EXCEPT !.changed = TRUE, !.data[i] = b]
    /\ UNCHANGED outsidePacket

\* The receiver parses the datagram.
FromBytes ==
    /\ packet.pc = "datagram"
    /\ packet' = [packet EXCEPT !.pc = "parsed", !.got = from_bytes(packet.data)]
    /\ UNCHANGED outsidePacket

PacketNext ==
    \/ ToBytes
    \/ \E n \in CutLengths : Truncate(n)
    \/ \E i \in ChangedPositions, b \in ChangedBytes : ChangeByte(i, b)
    \/ FromBytes

PacketInit ==
    /\ EngineIdle
    /\ DevicesIdle /\ ClientIdle /\ ServerIdle /\ StreamsIdle
    /\ life = "unused"
    /\ mapper = "unused"
    /\ registry = "unused"
    /\ render = "unused"
    /\ packet \in {[pc |-> "packet",
                    sent |-> NewPacket(sequence, color_format, pixel_data, encoding, 0),
                    data |-> <<>>, cut |-> FALSE, changed |-> FALSE,
                    got |-> NoPacket] :
                      sequence \in SequenceNumbers, color_format \in {RGB, RGBW},
                      pixel_data \in PixelBuffers(RGB) \cup PixelBuffers(RGBW),
                      encoding \in Encodings}
    /\ Len(packet.sent.pixel_data[1]) = bytes_per_pixel(packet.sent.color_format)

\* Data packets between a sender and a receiver, over a network that may
\* deliver anything.
PacketSpec == PacketInit /\ [][PacketNext]_vars

\* C22: a datagram that arrives as it was sent parses into a packet with the
\* pixels, sequence, colour format and encoding of the packet sent (RGB and
\* RGBW, RAW and RLE, short buffers and runs around the 255 of a count byte).
C22_DecodeEncode ==
    (packet.pc = "parsed" /\ ~packet.cut /\ ~packet.changed)
        => /\ packet.got.status = "ok"
           /\ packet.got.pixel_data = packet.sent.pixel_data
           /\ packet.got.sequence = packet.sent.sequence
           /\ packet.got.color_format = packet.sent.color_format
           /\ packet.got.encoding = packet.sent.encoding

\* An RLE packet of more than 255 equal pixels went through unharmed.
C22_Witness ==
    /\ packet.pc = "parsed" /\ ~packet.cut /\ ~packet.changed
    /\ packet.sent.encoding = RLE
    /\ Len(packet.sent.pixel_data) > MaxRunLength
    /\ packet.got.pixel_data = packet.sent.pixel_data

\* A datagram with both headers that starts with the magic bytes 0x4C 0x54.
HasMagic(data) ==
    /\ Len(data) >= HEADER_SIZE + FRAME_HEADER_SIZE
    /\ data[1] = 76 /\ data[2] = 84

\* A RAW datagram of a known colour format whose payload is shorter than its
\* pixel count times the bytes per pixel.
ShortRawPayload(data) ==
    /\ Len(data) >= HEADER_SIZE + FRAME_HEADER_SIZE
    /\ data[9] \in ColorFormats
    /\ data[10] = RAW
    /\ Len(data) - (HEADER_SIZE + FRAME_HEADER_SIZE)
           < unpack_H(SubSeq(data, 11, 12)) * bytes_per_pixel(data[9])

\* C23: parsing a datagram shorter than the 12 header bytes, one without the
\* magic bytes, or a RAW one with too short a payload fails with
\* INVALID_FORMAT and gives no packet.
C23_MalformedDatagram ==
    (/\ packet.pc = "parsed"
     /\ \/ Len(packet.data) < HEADER_SIZE + FRAME_HEADER_SIZE
        \/ ~HasMagic(packet.data)
        \/ ShortRawPayload(packet.data))
        => packet.got = Raised("INVALID_FORMAT")

\* A RAW datagram with the magic bytes and both headers, cut inside its
\* payload, was refused with INVALID_FORMAT.
C23_Witness ==
    /\ packet.pc = "parsed"
    /\ packet.cut
    /\ HasMagic(packet.data)
    /\ ShortRawPayload(packet.data)
    /\ Len(packet.data) > HEADER_SIZE + FRAME_HEADER_SIZE
    /\ packet.got = Raised("INVALID_FORMAT")

\* C24: parsing a datagram with the magic bytes, both headers and a known
\* colour format, whose encoding byte is neither RAW nor RLE, fails with
\* INVALID_FORMAT.
C24_UnknownEncoding ==
    (/\ packet.pc = "parsed"
     /\ HasMagic(packet.data)
     /\ packet.data[9] \in ColorFormats
     /\ packet.data[10] \notin {RAW, RLE})
        => packet.got = Raised("INVALID_FORMAT")

\* ---------------------------------------------------------------------------
\* libltp.controls: a device's control registry
\* ---------------------------------------------------------------------------

\* ErrorCode (libltp.types), by value.
NOT_FOUND == 4
INVALID_VALUE == 6
READONLY == 7

\* The most keys one control_set request carries.
MaxKeys == 2

\* A Python float: a number or not-a-number.
Float(n) == [kind |-> "number", n |-> n]
NaN == [kind |-> "nan", n |-> 0]

\* The raw values of a request: JSON integers, strings (as their characters)
\* and null.
IntValue(n) == [type |-> "int", n |-> n, s |-> <<>>]
StrValue(s) == [type |-> "str", n |-> 0, s |-> s]
NullValue == [type |-> "null", n |-> 0, s |-> <<>>]

RawValues ==
    {IntValue(0 - 1), IntValue(5), IntValue(11),
     StrValue(<<"5">>), StrValue(<<"a", "b", "c">>), StrValue(<<"n", "a", "n">>),
     NullValue}

Digits == {"0", "1", "5"}
digit(c) == CASE c = "0" -> 0 [] c = "1" -> 1 [] c = "5" -> 5

RECURSIVE digits_value(_)
digits_value(s) ==
    IF s = <<>> THEN 0
    ELSE digits_value(SubSeq(s, 1, Len(s) - 1)) * 10 + digit(s[Len(s)])

\* float(value): an integer as it is, a string by its text ("nan" is a
\* float), null raises TypeError, any other text ValueError.
float(value) ==
    CASE value.type = "int" -> [raised |-> "none", num |-> Float(value.n)]
      [] value.type = "null" -> [raised |-> "TypeError", num |-> NaN]
      [] value.type = "str" ->
            LET signed == Len(value.s) > 0 /\ value.s[1] = "-"
                text == IF signed THEN Tail(value.s) ELSE value.s
            IN  IF value.s = <<"n", "a", "n">>
                THEN [raised |-> "none", num |-> NaN]
                ELSE IF text # <<>> /\ \A i \in 1..Len(text) : text[i] \in Digits
                THEN [raised |-> "none",
                      num |-> Float(IF signed THEN 0 - digits_value(text)
                                    ELSE digits_value(text))]
                ELSE [raised |-> "ValueError", num |-> NaN]

\* num < limit and num > limit on floats: false for not-a-number.
below(num, limit) == num.kind = "number" /\ num.n < limit
above(num, limit) == num.kind = "number" /\ num.n > limit

\* A NumberControl.
NumberControl(value, readonly, has_min, min, has_max, max) ==
    [type |-> "number", value |-> Float(value), readonly |-> readonly,
     has_min |-> has_min, min |-> min, has_max |-> has_max, max |-> max]

\* NumberControl.validate_value: the coerced number, or
\* ControlValidationError.
validate_value(control, value) ==
    LET converted == float(value)
    IN  IF converted.raised # "none"
        THEN [raised |-> "ControlValidationError", value |-> control.value]
        ELSE IF control.has_min /\ below(converted.num, control.min)
        THEN [raised |-> "ControlValidationError", value |-> control.value]
        ELSE IF control.has_max /\ above(converted.num, control.max)
        THEN [raised |-> "ControlValidationError", value |-> control.value]
        ELSE [raised |-> "none", value |-> converted.num]

\* Characters of the modelled strings, and str.upper() of one.
HexDigits == {"0", "1", "5", "a", "A", "F"}
upper_char(c) == CASE c = "a" -> "A" [] c = "g" -> "G" [] OTHER -> c
upper(s) == [i \in DOMAIN s |-> upper_char(s[i])]

\* The decimal text of a natural number.
RECURSIVE int_text(_)
int_text(n) ==
    LET last == CASE n % 10 = 0 -> "0" [] n % 10 = 1 -> "1" [] n % 10 = 5 -> "5"
                  [] OTHER -> "9"
    IN  IF n < 10 THEN <<last>> ELSE Append(int_text(n \div 10), last)

\* str(value) of a raw value.
str(value) ==
    CASE value.type = "str" -> value.s
      [] value.type = "null" -> <<"N", "o", "n", "e">>
      [] value.type = "int" ->
            IF value.n < 0 THEN <<"-">> \o int_text(0 - value.n) ELSE int_text(value.n)

\* re.match(r"^#[0-9A-Fa-f]{n}$", s): "#" and n hex digits, then the end of
\* the string or one newline before it ($ matches there too).
matches_hex(s, n) ==
    /\ Len(s) \in {n + 1, n + 2}
    /\ s[1] = "#"
    /\ \A i \in 2..(n + 1) : s[i] \in HexDigits
    /\ Len(s) = n + 2 => s[n + 2] = "\n"

\* An EnumControl (pydantic checks the fields' types only).
EnumControl(value, options) ==
    [type |-> "enum", value |-> value, readonly |-> FALSE, options |-> options]

\* EnumControl.validate_value
enum_validate_value(control, value) ==
    IF str(value) \notin control.options
    THEN [raised |-> "ControlValidationError", value |-> control.value]
    ELSE [raised |-> "none", value |-> str(value)]

\* ColorControl(value=..., alpha=...): the field validator
\* validate_color_format refuses a value that does not match
\* ^#[0-9A-Fa-f]{6}([0-9A-Fa-f]{2})?$ and stores v.upper().
ColorControl(value, alpha) ==
    IF matches_hex(value, 6) \/ matches_hex(value, 8)
    THEN [raised |-> "none",
          control |-> [type |-> "color", value |-> upper(value),
                       readonly |-> FALSE, alpha |-> alpha]]
    ELSE [raised |-> "ValidationError",
          control |-> [type |-> "color", value |-> value, readonly |-> FALSE,
                       alpha |-> alpha]]

\* ColorControl.validate_value
color_validate_value(control, value) ==
    LET s == upper(str(value))
    IN  IF control.alpha
        THEN IF matches_hex(s, 8) THEN [raised |-> "none", value |-> s]
             ELSE IF matches_hex(s, 6)
             THEN [raised |-> "none", value |-> s \o <<"F", "F">>]
             ELSE [raised |-> "ControlValidationError", value |-> control.value]
        ELSE IF matches_hex(s, 6) THEN [raised |-> "none", value |-> s]
             ELSE [raised |-> "ControlValidationError", value |-> control.value]

\* control.validate_value(value), by the class of the control.
control_validate_value(control, value) ==
    CASE control.type = "number" -> validate_value(control, value)
      [] control.type = "enum" -> enum_validate_value(control, value)
      [] control.type = "color" -> color_validate_value(control, value)

\* type(control)(**control_dict) with the validated value: the class is
\* constructed again, and a ColorControl runs its field validator again.
rebuild(control, validated) ==
    IF control.type = "color"
    THEN ColorControl(validated, control.alpha)
    ELSE [raised |-> "none", control |-> [control EXCEPT !.value = validated]]

\* for callback in self._callbacks[control_id]: callback(control_id,
\* old_value, validated), as the calls the observers get, in their order.
notify(callbacks, control_id, old_value, validated) ==
    [i \in 1..Len(callbacks) |->
        [callback |-> callbacks[i], control_id |-> control_id,
         old_value |-> old_value, new_value |-> validated]]

\* A faulty set_value that calls the first observer of the control only; C33
\* must notice it.
set_value_notifying_first(reg, control_id, value) ==
    IF control_id \notin DOMAIN reg.controls
    THEN [raised |-> "KeyError", validated |-> NaN, reg |-> reg]
    ELSE LET control == reg.controls[control_id]
             checked == control_validate_value(control, value)
             new_control == rebuild(control, checked.value)
         IN  IF control.readonly \/ checked.raised # "none"
             THEN [raised |-> "ControlValidationError", validated |-> NaN,
                   reg |-> reg]
             ELSE IF new_control.raised # "none"
             THEN [raised |-> new_control.raised, validated |-> NaN, reg |-> reg]
             ELSE [raised |-> "none", validated |-> checked.value,
                   reg |-> [reg EXCEPT
                       !.controls[control_id] = new_control.control,
                       !.notified = @ \o notify(SubSeq(reg.callbacks[control_id], 1,
                                                        Min(1, Len(reg.callbacks[control_id]))),
                                                 control_id, control.value,
                                                 checked.value)]]

\* ControlRegistry.set_value on the registry reg (controls, callbacks and
\* the observers' calls so far): KeyError for an unknown id,
\* ControlValidationError for a read-only control or a refused value;
\* otherwise the control is built again with the validated value (the
\* ValidationError of that goes to the caller), it replaces the old one and
\* the observers are called with the old and the validated value.
set_value(reg, control_id, value) ==
    IF control_id \notin DOMAIN reg.controls
    THEN [raised |-> "KeyError", validated |-> NaN, reg |-> reg]
    ELSE LET control == reg.controls[control_id]
             checked == control_validate_value(control, value)
             new_control == rebuild(control, checked.value)
         IN  IF control.readonly
             THEN [raised |-> "ControlValidationError", validated |-> NaN,
                   reg |-> reg]
             ELSE IF checked.raised # "none"
             THEN [raised |-> "ControlValidationError", validated |-> NaN,
                   reg |-> reg]
             ELSE IF new_control.raised # "none"
             THEN [raised |-> new_control.raised, validated |-> NaN, reg |-> reg]
             ELSE [raised |-> "none", validated |-> checked.value,
                   reg |-> [reg EXCEPT
                       !.controls[control_id] = new_control.control,
                       !.notified = @ \o notify(reg.callbacks[control_id],
                                                 control_id, control.value,
                                                 checked.value)]]

\* dict[key] = value.
Put(dict, key, value) ==
    [k \in DOMAIN dict \cup {key} |-> IF k = key THEN value ELSE dict[k]]

\* set_values that gives up at the first key that fails.
RECURSIVE set_values_stop(_, _, _)
set_values_stop(out, values, i) ==
    IF i > Len(values) THEN out
    ELSE LET control_id == values[i][1]
             res == set_value(out.reg, control_id, values[i][2])
         IN  IF res.raised = "none"
             THEN set_values_stop([out EXCEPT !.reg = res.reg,
                      !.applied = Put(@, control_id, res.validated)], values, i + 1)
             ELSE [out EXCEPT !.errors = Put(@, control_id,
                      IF res.raised = "KeyError" THEN NOT_FOUND ELSE INVALID_VALUE)]

set_values_until_error(reg, values) ==
    set_values_stop([reg |-> reg, applied |-> <<>>, errors |-> <<>>, raised |-> "none"], values, 1)

\* set_values, the loop from item i of the request's values (in their
\* order): applied gets the validated value, errors the code 4 for KeyError
\* and 6 for ControlValidationError; any other exception ends the call.
RECURSIVE set_values_from(_, _, _)
set_values_from(out, values, i) ==
    IF i > Len(values) THEN out
    ELSE LET control_id == values[i][1]
             res == set_value(out.reg, control_id, values[i][2])
         IN  IF res.raised \notin {"none", "KeyError", "ControlValidationError"}
             THEN [out EXCEPT !.raised = res.raised]
             ELSE set_values_from(
                 IF res.raised = "none"
                 THEN [out EXCEPT !.reg = res.reg,
                                  !.applied = Put(@, control_id, res.validated)]
                 ELSE IF res.raised = "KeyError"
                 THEN [out EXCEPT !.errors = Put(@, control_id, 4)]
                 ELSE [out EXCEPT !.errors = Put(@, control_id, 6)],
                 values, i + 1)

\* ControlRegistry.set_values: (applied, errors) and the registry after.
set_values(reg, values) ==
    set_values_from([reg |-> reg, applied |-> <<>>, errors |-> <<>>, raised |-> "none"], values, 1)

\* The controls of the modelled device: level within 0..10, gain without a
\* range, count read-only; "other" is the id of no control.
ControlIds == {"level", "gain", "count"}
RequestIds == ControlIds \cup {"other"}

NewRegistry ==
    [controls |-> [control_id \in ControlIds |->
                      CASE control_id = "level" -> NumberControl(3, FALSE, TRUE, 0, TRUE, 10)
                        [] control_id = "gain" -> NumberControl(3, FALSE, FALSE, 0, FALSE, 0)
                        [] control_id = "count" -> NumberControl(3, TRUE, TRUE, 0, TRUE, 10)],
     callbacks |-> [control_id \in RequestIds |-> <<>>],
     max_callbacks |-> 1,
     notified |-> <<>>,
     raised |-> "none",
     validated |-> NaN,
     called |-> FALSE,
     before |-> <<>>,
     values |-> <<>>,
     applied |-> <<>>,
     errors |-> <<>>,
     status |-> "none"]

\* The values of a control_set request: up to MaxKeys ids, each once, in the
\* order of the JSON object; every raw value for level, three for gain and
\* one for the read-only and the unknown id.
RequestItems ==
    ({"level"} \X RawValues)
    \cup ({"gain"} \X {IntValue(0 - 1), StrValue(<<"5">>), NullValue})
    \cup ({"count", "other"} \X {IntValue(5)})

ValueMaps ==
    {values \in UNION {[1..n -> RequestItems] : n \in 0..MaxKeys} :
        \A i, j \in DOMAIN values : i # j => values[i][1] # values[j][1]}

\* The callbacks an observer registers.
Observers == {"a", "b"}

\* The most callbacks registered for one control id.
MaxObservers == 2

\* on_change: the callback is appended to the list of the control id (a new
\* list for an id without one; the id need not be a control's).
OnChange(control_id, callback) ==
    /\ Len(registry.callbacks[control_id]) < registry.max_callbacks
    /\ registry' = [registry EXCEPT !.callbacks[control_id] = Append(@, callback)]
    /\ UNCHANGED outsideRegistry

\* One call of set_value, with what it raised or returned.
SetValue(control_id, value) ==
    /\ LET res == set_value([controls |-> registry.controls,
                             callbacks |-> registry.callbacks,
                             notified |-> <<>>], control_id, value)
       IN  registry' = [registry EXCEPT
               !.controls = res.reg.controls,
               !.notified = res.reg.notified,
               !.called = TRUE,
               !.before = registry.controls,
               !.values = <<<<control_id, value>>>>,
               !.raised = res.raised,
               !.validated = res.validated]
    /\ UNCHANGED outsideRegistry

\* _handle_control_set: set_values on the request's values; the response is
\* "ok" without errors and "partial" with some (none when set_values raised).
HandleControlSet(values) ==
    /\ LET out == set_values([controls |-> registry.controls,
                              callbacks |-> registry.callbacks,
                              notified |-> <<>>], values)
       IN  registry' = [registry EXCEPT
               !.controls = out.reg.controls,
               !.notified = out.reg.notified,
               !.called = TRUE,
               !.before = registry.controls,
               !.values = values,
               !.applied = out.applied,
               !.errors = out.errors,
               !.raised = out.raised,
               !.status = IF out.raised # "none" THEN "none"
                          ELSE IF DOMAIN out.errors = {} THEN "ok" ELSE "partial"]
    /\ UNCHANGED outsideRegistry

RegistryNext ==
    \/ \E control_id \in {"level", "count"} : OnChange(control_id, "a")
    \/ \E values \in ValueMaps : HandleControlSet(values)

RegistryInit ==
    /\ EngineIdle
    /\ DevicesIdle /\ ClientIdle /\ ServerIdle /\ StreamsIdle
    /\ life = "unused"
    /\ mapper = "unused"
    /\ render = "unused"
    /\ packet = "unused"
    /\ registry = NewRegistry

\* A device's control registry under control_set requests.
RegistrySpec == RegistryInit /\ [][RegistryNext]_vars

\* The ids of a request, and the raw value the request has for an id.
RequestKeys == {registry.values[i][1] : i \in DOMAIN registry.values}
RawOf(control_id) ==
    registry.values[CHOOSE i \in DOMAIN registry.values :
                        registry.values[i][1] = control_id][2]

C26_ReadonlyRefused ==
    registry.called =>
        \A control_id \in RequestKeys \cap ControlIds :
            registry.before[control_id].readonly
                => /\ control_id \in DOMAIN registry.errors
                   /\ registry.errors[control_id] = READONLY
                   /\ registry.controls[control_id].value
                          = registry.before[control_id].value
                   /\ \A i \in DOMAIN registry.notified :
                          registry.notified[i].control_id # control_id

\* The numeric value of a raw value lies in 0..10.
InRange(value) ==
    /\ float(value).raised = "none"
    /\ float(value).num.kind = "number"
    /\ 0 <= float(value).num.n /\ float(value).num.n <= 10

\* C27: the control with min 0 and max 10 takes exactly the raw values whose
\* numeric value lies in 0..10 and stores the coerced number; any other raw
\* value fails with INVALID_VALUE and leaves the value as it was.
C27_NumberRange ==
    (registry.called /\ "level" \in RequestKeys) =>
        IF InRange(RawOf("level"))
        THEN /\ "level" \in DOMAIN registry.applied
             /\ registry.applied["level"] = float(RawOf("level")).num
             /\ registry.controls["level"].value = float(RawOf("level")).num
        ELSE /\ "level" \in DOMAIN registry.errors
             /\ registry.errors["level"] = INVALID_VALUE
             /\ registry.controls["level"].value = registry.before["level"].value

ObserverNext ==
    \/ \E control_id \in {"level", "count"}, callback \in Observers :
            OnChange(control_id, callback)
    \/ \E item \in RequestItems : SetValue(item[1], item[2])

ObserverInit ==
    /\ EngineIdle
    /\ DevicesIdle /\ ClientIdle /\ ServerIdle /\ StreamsIdle
    /\ life = "unused"
    /\ mapper = "unused"
    /\ render = "unused"
    /\ packet = "unused"
    /\ registry = [NewRegistry EXCEPT !.max_callbacks = MaxObservers]

\* A control registry under on_change and set_value calls.
ObserverSpec == ObserverInit /\ [][ObserverNext]_vars

\* set_value on this id with this raw value succeeds: the id is a control's,
\* the control is writable and the value passes its validation.
Settable(control_id, value) ==
    /\ control_id \in ControlIds
    /\ ~registry.controls[control_id].readonly
    /\ validate_value(registry.controls[control_id], value).raised = "none"

\* C33: a set_value that succeeds calls every callback registered for its id
\* with on_change once, in the order of registration, with the id, the value
\* from before and the validated value now stored, and no callback of another
\* id; a set_value that fails (unknown id, read-only control, refused value)
\* calls no callback.
C33_ObserversOnce ==
    [][\A item \in RequestItems :
        SetValue(item[1], item[2]) =>
            IF Settable(item[1], item[2])
            THEN /\ registry'.raised = "none"
                 /\ Len(registry'.notified) = Len(registry.callbacks[item[1]])
                 /\ \A i \in DOMAIN registry'.notified :
                        registry'.notified[i] =
                            [callback |-> registry.callbacks[item[1]][i],
                             control_id |-> item[1],
                             old_value |-> registry.controls[item[1]].value,
                             new_value |-> registry'.controls[item[1]].value]
                 /\ registry'.controls[item[1]].value
                        = validate_value(registry.controls[item[1]], item[2]).value
            ELSE /\ registry'.raised # "none"
                 /\ registry'.notified = <<>>]_vars

\* Two callbacks of level were called with a value that changed, while count
\* has a callback that was not.
C33_Witness ==
    /\ registry.called
    /\ Len(registry.notified) = 2
    /\ registry.notified[1].callback = "a" /\ registry.notified[2].callback = "b"
    /\ registry.notified[1].control_id = "level"
    /\ registry.notified[1].old_value # registry.notified[1].new_value
    /\ registry.callbacks["count"] # <<>>

\* A device with a number, an enum and a color control.
TypedIds == {"level", "mode", "tint"}

\* The texts of the modelled values.
On == <<"o", "n">>
Off == <<"o", "f", "f">>
Green == <<"#", "0", "0", "a", "a", "0", "0">>
NotHex == <<"#", "0", "0", "g", "g", "0", "0">>

\* A control that was constructed.
Built(control) == [raised |-> "none", control |-> control]

\* The controls a device constructs for these ids: in and out of their
\* range, of and not of their options, well and ill formed.
Constructed ==
    {<<"level", Built(NumberControl(3, FALSE, TRUE, 0, TRUE, 10))>>,
     <<"level", Built(NumberControl(50, FALSE, TRUE, 0, TRUE, 10))>>,
     <<"mode", Built(EnumControl(On, {On, Off}))>>,
     <<"mode", Built(EnumControl(<<"z">>, {On, Off}))>>,
     <<"tint", ColorControl(Green, FALSE)>>,
     <<"tint", ColorControl(Green, TRUE)>>,
     <<"tint", ColorControl(NotHex, FALSE)>>}

\* The values set_value and set_values are called with.
TypedItems ==
    ({"level"} \X {IntValue(11), StrValue(<<"n", "a", "n">>)})
    \cup ({"mode"} \X {StrValue(Off), IntValue(5)})
    \cup ({"tint"} \X {StrValue(Green), StrValue(NotHex),
                        StrValue(Green \o <<"\n">>)})

\* The values of the set_values calls: a value for level and one for tint, in
\* either order.
TypedMaps ==
    LET items == ({"level"} \X {IntValue(5), StrValue(<<"n", "a", "n">>)})
                 \cup ({"tint"} \X {StrValue(Green), StrValue(Green \o <<"\n">>)})
    IN  {values \in [1..2 -> items] : values[1][1] # values[2][1]}

\* register(control), after the control's construction: a control whose
\* construction raised is not there to register.  The last call is no
\* set_value or set_values any more.
Register(control_id, built) ==
    /\ built.raised = "none"
    /\ registry' = [NewRegistry EXCEPT
                       !.controls = Put(registry.controls, control_id, built.control),
                       !.callbacks = registry.callbacks]
    /\ UNCHANGED outsideRegistry

TypedNext ==
    \/ \E c \in Constructed : Register(c[1], c[2])
    \/ \E item \in TypedItems : SetValue(item[1], item[2])
    \/ \E values \in TypedMaps : HandleControlSet(values)

TypedInit ==
    /\ EngineIdle
    /\ DevicesIdle /\ ClientIdle /\ ServerIdle /\ StreamsIdle
    /\ life = "unused"
    /\ mapper = "unused"
    /\ render = "unused"
    /\ packet = "unused"
    /\ registry = [NewRegistry EXCEPT !.controls = <<>>,
                                      !.callbacks = [control_id \in TypedIds |-> <<>>]]

\* A registry of typed controls under register, set_value and set_values.
TypedSpec == TypedInit /\ [][TypedNext]_vars

\* "#" and six or eight hex digits in upper case.
UpperHex(s) ==
    /\ Len(s) \in {7, 9}
    /\ s[1] = "#"
    /\ \A i \in 2..Len(s) : s[i] \in {"0", "1", "5", "A", "F"}

\* C34: the stored value of every registered control fits the control: a
\* number within its minimum and maximum, an enum value among its options, a
\* color "#" and six or eight upper-case hex digits.
C34_ValuesConsistent ==
    \A control_id \in DOMAIN registry.controls :
        LET control == registry.controls[control_id]
        IN  CASE control.type = "number" ->
                    /\ control.value.kind = "number"
                    /\ control.has_min => control.value.n >= control.min
                    /\ control.has_max => control.value.n <= control.max
              [] control.type = "enum" -> control.value \in control.options
              [] control.type = "color" -> UpperHex(control.value)

\* ---------------------------------------------------------------------------
\* libltp.topology: the mapper of a matrix topology
\* ---------------------------------------------------------------------------

MaxWidth == 3
MaxHeight == 3

MatrixOrigins == {"top-left", "top-right", "bottom-left", "bottom-right"}
MatrixOrders == {"row-major", "column-major"}

\* None, for an index and for grid coordinates.
NoIndex == 0 - 1
NoGrid == <<0 - 1, 0 - 1>>

\* range(n) as a list, and reversed(...).
range(n) == [i \in 1..n |-> i - 1]
reversed(list) == [i \in 1..Len(list) |-> list[Len(list) + 1 - i]]

\* _build_matrix_mapping, row-major: the rows in their order (reversed for a
\* bottom origin) and the columns of the row at position row_idx (reversed
\* for a right origin, and again on odd positions when serpentine).
row_major_rows(topology) ==
    IF topology.origin \in {"bottom-left", "bottom-right"}
    THEN reversed(range(topology.height)) ELSE range(topology.height)

row_major_cols(topology, row_idx) ==
    LET cols_base == IF topology.origin \in {"top-right", "bottom-right"}
                     THEN reversed(range(topology.width))
                     ELSE range(topology.width)
    IN  IF topology.serpentine /\ row_idx % 2 = 1
        THEN reversed(cols_base) ELSE cols_base

\* _build_matrix_mapping, column-major: the same with rows and columns
\* exchanged.
column_major_cols(topology) ==
    IF topology.origin \in {"top-right", "bottom-right"}
    THEN reversed(range(topology.width)) ELSE range(topology.width)

column_major_rows(topology, col_idx) ==
    LET rows_base == IF topology.origin \in {"bottom-left", "bottom-right"}
                     THEN reversed(range(topology.height))
                     ELSE range(topology.height)
    IN  IF topology.serpentine /\ col_idx % 2 = 1
        THEN reversed(rows_base) ELSE rows_base

\* The assignments _coord_to_index[(col, row)] = index of the two nested
\* loops, as <<col, row, index>>; index counts the assignments from 0.
matrix_assignments(topology) ==
    IF topology.order = "row-major"
    THEN {<<row_major_cols(topology, row_idx)[k + 1],
            row_major_rows(topology)[row_idx + 1],
            row_idx * topology.width + k>> :
              row_idx \in 0..(topology.height - 1), k \in 0..(topology.width - 1)}
    ELSE {<<column_major_cols(topology)[col_idx + 1],
            column_major_rows(topology, col_idx)[k + 1],
            col_idx * topology.height + k>> :
              col_idx \in 0..(topology.width - 1), k \in 0..(topology.height - 1)}

\* _build_matrix_mapping: the dictionary the assignments leave; a later
\* assignment to a key replaces an earlier one.
build_matrix_mapping(topology) ==
    LET assigned == matrix_assignments(topology)
        keys == {<<a[1], a[2]>> : a \in assigned}
    IN  [key \in keys |->
            CHOOSE index \in {a[3] : a \in {b \in assigned : <<b[1], b[2]>> = key}} :
                \A a \in assigned : <<a[1], a[2]>> = key => a[3] <= index]

\* grid_to_index: _coord_to_index.get((col, row)).
grid_to_index(coord_to_index, col, row) ==
    IF <<col, row>> \in DOMAIN coord_to_index
    THEN coord_to_index[<<col, row>>] ELSE NoIndex

\* index_to_grid that answers (row, col).
index_to_grid_swapped(coord_to_index, index) ==
    IF \E key \in DOMAIN coord_to_index : coord_to_index[key] = index
    THEN LET key == CHOOSE key \in DOMAIN coord_to_index :
                        coord_to_index[key] = index
         IN  <<key[2], key[1]>>
    ELSE NoGrid

\* index_to_grid: the key of the dictionary whose index this is, None
\* without one.
index_to_grid(coord_to_index, index) ==
    IF \E key \in DOMAIN coord_to_index : coord_to_index[key] = index
    THEN CHOOSE key \in DOMAIN coord_to_index : coord_to_index[key] = index
    ELSE NoGrid

MatrixTopologies ==
    [width : 1..MaxWidth, height : 1..MaxHeight, origin : MatrixOrigins,
     order : MatrixOrders, serpentine : BOOLEAN]

\* TopologyMapper(topology): _build_mapping fills the dictionary.
BuildMapping ==
    /\ ~mapper.built
    /\ mapper' = [mapper EXCEPT !.built = TRUE,
                     !.coord_to_index = build_matrix_mapping(mapper.topology)]
    /\ UNCHANGED outsideMapper

\* A caller asks for the grid position of an index.
IndexToGrid(index) ==
    /\ mapper.built
    /\ mapper' = [mapper EXCEPT !.index = index,
                     !.grid = index_to_grid(mapper.coord_to_index, index)]
    /\ UNCHANGED outsideMapper

\* A caller asks for the index of a grid position.
GridToIndex(col, row) ==
    /\ mapper.built
    /\ mapper' = [mapper EXCEPT !.grid = <<col, row>>,
                     !.index = grid_to_index(mapper.coord_to_index, col, row)]
    /\ UNCHANGED outsideMapper

MapperNext ==
    \/ BuildMapping
    \/ \E index \in 0..(MaxWidth * MaxHeight) : IndexToGrid(index)
    \/ \E col \in 0..MaxWidth, row \in 0..MaxHeight : GridToIndex(col, row)

MapperInit ==
    /\ EngineIdle
    /\ DevicesIdle /\ ClientIdle /\ ServerIdle /\ StreamsIdle
    /\ life = "unused"
    /\ render = "unused"
    /\ packet = "unused"
    /\ registry = "unused"
    /\ mapper \in {[topology |-> topology, built |-> FALSE, coord_to_index |-> <<>>,
                    index |-> NoIndex, grid |-> NoGrid] :
                      topology \in MatrixTopologies}

\* Topology mappers of every small matrix and their callers.
MapperSpec == MapperInit /\ [][MapperNext]_vars

\* C28: for a built matrix mapper, index_to_grid takes the indices below
\* width * height one-to-one onto the grid positions, and grid_to_index takes
\* each of them back; the answers the callers got agree with that.
C28_GridBijection ==
    mapper.built =>
        LET indices == 0..(mapper.topology.width * mapper.topology.height - 1)
            grid == (0..(mapper.topology.width - 1)) \X (0..(mapper.topology.height - 1))
            to_grid(i) == index_to_grid(mapper.coord_to_index, i)
        IN  /\ \A i \in indices : to_grid(i) \in grid
            /\ \A i, j \in indices : to_grid(i) = to_grid(j) => i = j
            /\ \A g \in grid : \E i \in indices : to_grid(i) = g
            /\ \A i \in indices :
                  grid_to_index(mapper.coord_to_index, to_grid(i)[1], to_grid(i)[2]) = i
            /\ (mapper.index \in indices /\ mapper.grid # NoGrid)
                  => /\ to_grid(mapper.index) = mapper.grid
                     /\ grid_to_index(mapper.coord_to_index,
                                      mapper.grid[1], mapper.grid[2]) = mapper.index

\* A serpentine matrix wider than high, from the bottom right: the last
\* index was asked for and lies in an odd row.
C28_Witness ==
    /\ mapper.built
    /\ mapper.topology.serpentine
    /\ mapper.topology.origin = "bottom-right"
    /\ mapper.topology.width = 3 /\ mapper.topology.height = 2
    /\ mapper.index = 5
    /\ mapper.grid = index_to_grid(mapper.coord_to_index, 5)
    /\ mapper.grid \in (0..2) \X (0..1)

\* ---------------------------------------------------------------------------
\* ltp_source and ltp_sink: start and stop of the two processes
\* ---------------------------------------------------------------------------

\* The most calls of each of start and stop a process gets.
MaxCalls == 2

\* A Source: _running, what its start calls have created so far, its start
\* calls suspended in an await (by the await), and its stop calls suspended.
NewSourceLife ==
    [running |-> FALSE, control_servers |-> 0, advertisers |-> 0, browsers |-> 0,
     render_tasks |-> 0, stopped |-> 0,
     at_server |-> 0, at_advertiser |-> 0, at_browser |-> 0, at_stop |-> 0]

\* A Sink: _running, how often start created its servers and stop stopped
\* them, and its calls suspended in an await.
NewSinkLife ==
    [running |-> FALSE, created |-> 0, stopped |-> 0, at_start |-> 0, at_stop |-> 0]

\* Source.start, to its first await: nothing when running; otherwise a
\* control server is created and started.
SourceStartUnguarded ==
    /\ life.source_starts < MaxCalls
    /\ life' = [life EXCEPT !.source_starts = @ + 1,
                            !.source.control_servers = @ + 1,
                            !.source.at_server = @ + 1]
    /\ UNCHANGED outsideLife

SourceStart ==
    /\ life.source_starts < MaxCalls
    /\ life' = IF life.source.running
               THEN [life EXCEPT !.source_starts = @ + 1]
               ELSE [life EXCEPT !.source_starts = @ + 1,
                                 !.source.control_servers = @ + 1,
                                 !.source.at_server = @ + 1]
    /\ UNCHANGED outsideLife

\* Source.start, after the control server: the advertiser.
SourceStartAdvertiser ==
    /\ life.source.at_server > 0
    /\ life' = [life EXCEPT !.source.at_server = @ - 1,
                            !.source.advertisers = @ + 1,
                            !.source.at_advertiser = @ + 1]
    /\ UNCHANGED outsideLife

\* Source.start, after the advertiser: the service browser.
SourceStartBrowser ==
    /\ life.source.at_advertiser > 0
    /\ life' = [life EXCEPT !.source.at_advertiser = @ - 1,
                            !.source.browsers = @ + 1,
                            !.source.at_browser = @ + 1]
    /\ UNCHANGED outsideLife

\* Source.start, after the browser: _running and the render task.
SourceStarted ==
    /\ life.source.at_browser > 0
    /\ life' = [life EXCEPT !.source.at_browser = @ - 1,
                            !.source.running = TRUE,
                            !.source.render_tasks = @ + 1]
    /\ UNCHANGED outsideLife

\* Source.stop, to its first await: nothing when not running; otherwise
\* _running is cleared and the render task cancelled.
SourceStop ==
    /\ life.source_stops < MaxCalls
    /\ life' = IF ~life.source.running
               THEN [life EXCEPT !.source_stops = @ + 1]
               ELSE [life EXCEPT !.source_stops = @ + 1,
                                 !.source.running = FALSE,
                                 !.source.at_stop = @ + 1]
    /\ UNCHANGED outsideLife

\* Source.stop, the rest: senders, browser, advertiser and control server
\* are stopped.
SourceStopped ==
    /\ life.source.at_stop > 0
    /\ life' = [life EXCEPT !.source.at_stop = @ - 1, !.source.stopped = @ + 1]
    /\ UNCHANGED outsideLife

\* Sink.start, to its first await: nothing when running; otherwise the
\* control server is created.
SinkStart ==
    /\ life.sink_starts < MaxCalls
    /\ life' = IF life.sink.running
               THEN [life EXCEPT !.sink_starts = @ + 1]
               ELSE [life EXCEPT !.sink_starts = @ + 1,
                                 !.sink.created = @ + 1,
                                 !.sink.at_start = @ + 1]
    /\ UNCHANGED outsideLife

\* Sink.start, the rest: receiver, advertiser, renderer, then _running.
SinkStarted ==
    /\ life.sink.at_start > 0
    /\ life' = [life EXCEPT !.sink.at_start = @ - 1, !.sink.running = TRUE]
    /\ UNCHANGED outsideLife

\* Sink.stop, to its first await: nothing when not running; otherwise the
\* renderer is stopped.
SinkStop ==
    /\ life.sink_stops < MaxCalls
    /\ life' = IF ~life.sink.running
               THEN [life EXCEPT !.sink_stops = @ + 1]
               ELSE [life EXCEPT !.sink_stops = @ + 1, !.sink.at_stop = @ + 1]
    /\ UNCHANGED outsideLife

\* Sink.stop, the rest: advertiser, receiver and control server are stopped,
\* then _running is cleared.
SinkStopped ==
    /\ life.sink.at_stop > 0
    /\ life' = [life EXCEPT !.sink.at_stop = @ - 1, !.sink.stopped = @ + 1,
                            !.sink.running = FALSE]
    /\ UNCHANGED outsideLife

LifeNext ==
    \/ SourceStart
    \/ SourceStartAdvertiser
    \/ SourceStartBrowser
    \/ SourceStarted
    \/ SourceStop
    \/ SourceStopped
    \/ SinkStart
    \/ SinkStarted
    \/ SinkStop
    \/ SinkStopped

LifeInit ==
    /\ EngineIdle
    /\ DevicesIdle /\ ClientIdle /\ ServerIdle /\ StreamsIdle
    /\ render = "unused"
    /\ packet = "unused"
    /\ registry = "unused"
    /\ mapper = "unused"
    /\ life = [source |-> NewSourceLife, source_starts |-> 0, source_stops |-> 0,
               sink |-> NewSinkLife, sink_starts |-> 0, sink_stops |-> 0]

\* A source process and a sink process under calls of start and stop.
LifeSpec == LifeInit /\ [][LifeNext]_vars

\* C29: a start call on a source whose _running is set leaves the source as
\* it is (no control server, advertiser, browser or render task more), and a
\* stop call on a sink whose _running is clear leaves the sink as it is.
C29_StartStopIdempotent ==
    [][/\ (life'.source_starts # life.source_starts /\ life.source.running)
            => life'.source = life.source
       /\ (life'.sink_stops # life.sink_stops /\ ~life.sink.running)
            => life'.sink = life.sink]_vars

\* The source was started twice and never stopped, runs, and has one control
\* server, advertiser and render task; the sink was started once and stopped
\* twice, and its servers were stopped once.
C29_Witness ==
    /\ life.source.running
    /\ life.source_starts = 2 /\ life.source_stops = 0
    /\ life.source.control_servers = 1
    /\ life.source.advertisers = 1
    /\ life.source.render_tasks = 1
    /\ ~life.sink.running
    /\ life.sink_starts = 1 /\ life.sink_stops = 2
    /\ life.sink.stopped = 1
    /\ life.sink.at_stop = 0

====
